---- MODULE Spec2Model ----
(***************************************************************************)
(* Model of the routing-token translator and the net processor of          *)
(* translate_nets_to_kicad.py, of the fabric generator hdl/simple.py, and  *)
(* of the sheets and LUT properties of place_cells_in_schematic.py and     *)
(* load_luts_into_kicad.py.                                                *)
(* Strings are sequences of one-character strings, so that stripping,      *)
(* splitting, pattern matching, int() and f-string formatting are computed *)
(* and not assumed.                                                        *)
(***************************************************************************)
EXTENDS Integers, Sequences, FiniteSets, TLC

VARIABLES
    pc,          \* position of the running program
    element,     \* argument of translate_net_from_verilog_to_kicad (test driver)
    translated,  \* its outcome
    routing_str, \* argument of parse_routing (test driver)
    parsed,      \* its outcome
    pnrtop,      \* which sections the loaded pnrtop.json has
    netnames,    \* the netlist, in dict iteration order
    net_i,       \* process_netnames: number of nets already iterated
    acc,         \* process_netnames: its local list `nets`
    nets,        \* main: its list `nets`
    unused_inputs, \* main: the set collect_unused_input_nets returned
    error,       \* the exception that ended the run, or NoError
    schematic,   \* the schematic file: what was last written to it
    grid,        \* hdl/simple.py: X, Y, K, GLOBAL_WIRE_COUNT, I/O rows, bits per I/O cell
    ctx,         \* hdl/simple.py: the ctx.add* calls made so far, in order
    gen_i,       \* hdl/simple.py: number of iterations done of the running loop
    gen_run,     \* which run of hdl/simple.py this is
    prev_ctx,    \* the calls the run before this one made
    sheet_lookup, \* pcb/74aoc.kicad_sch: the names of its hierarchical sheets
    cell,        \* load_luts_into_kicad: the CellInfo of the placed logic cell
    used_sheets, \* load_luts_into_kicad: main's set `used_sheets`
    sheet_props, \* the properties main gave the sheet of the cell, in order
    lut_error    \* the LutLoadError that ended load_luts_into_kicad, or none

fabric_vars == <<grid, ctx, gen_i, gen_run, prev_ctx>>

luts_vars == <<sheet_lookup, cell, used_sheets, sheet_props, lut_error>>

vars == <<pc, element, translated, routing_str, parsed, pnrtop, netnames,
          net_i, acc, nets, unused_inputs, error, schematic, fabric_vars,
          luts_vars>>

(***************************************************************************)
(* Architecture constants                                                  *)
(***************************************************************************)
GRID_X == 12
GRID_Y == 12
LUT_K == 3
BITS_PER_IO_CELL == 2

VALID_LUT_X == 1 .. (GRID_X - 1)
VALID_LUT_Y == 0 .. (GRID_Y - 1)
VALID_IO_Y == 0 .. (8 - 1)
VALID_IO_Z == 0 .. (BITS_PER_IO_CELL - 1)
VALID_LUT_SUFFIXES == { <<"Q">>, <<"F">>, <<"I", "0">>, <<"I", "1">>, <<"I", "2">> }

(***************************************************************************)
(* String primitives                                                       *)
(***************************************************************************)
DigitChars == <<"0", "1", "2", "3", "4", "5", "6", "7", "8", "9">>

IsDigitChar(c) == \E d \in 1 .. 10 : DigitChars[d] = c

DigitValue(c) == (CHOOSE d \in 1 .. 10 : DigitChars[d] = c) - 1

IsSpaceChar(c) == c \in {" ", "\t"}

\* str.isdigit(): non-empty and every character a digit
IsDigitStr(s) == Len(s) > 0 /\ \A i \in 1 .. Len(s) : IsDigitChar(s[i])

\* int(s) of a digit string
RECURSIVE ParseInt(_)
ParseInt(s) ==
    IF Len(s) = 0 THEN 0
    ELSE 10 * ParseInt(SubSeq(s, 1, Len(s) - 1)) + DigitValue(s[Len(s)])

\* f"{n}" of a non-negative integer
RECURSIVE FormatInt(_)
FormatInt(n) ==
    IF n < 10 THEN <<DigitChars[n + 1]>>
    ELSE FormatInt(n \div 10) \o <<DigitChars[(n % 10) + 1]>>

RECURSIVE LStrip(_)
LStrip(s) ==
    IF Len(s) > 0 /\ IsSpaceChar(s[1]) THEN LStrip(Tail(s)) ELSE s

RECURSIVE RStrip(_)
RStrip(s) ==
    IF Len(s) > 0 /\ IsSpaceChar(s[Len(s)])
    THEN RStrip(SubSeq(s, 1, Len(s) - 1)) ELSE s

\* str.strip()
Strip(s) == RStrip(LStrip(s))

\* s[at:].startswith(lit), with at one-based
StartsWithAt(s, at, lit) ==
    /\ at + Len(lit) - 1 <= Len(s)
    /\ SubSeq(s, at, at + Len(lit) - 1) = lit

\* str.split(sep) for a one-character separator: the field before the first
\* separator, then the fields of what follows it
RECURSIVE Split(_, _)
Split(s, sep) ==
    LET hits == {i \in 1 .. Len(s) : s[i] = sep} IN
    IF hits = {} THEN <<s>>
    ELSE LET first == CHOOSE i \in hits : \A j \in hits : i <= j
         IN  <<SubSeq(s, 1, first - 1)>> \o Split(SubSeq(s, first + 1, Len(s)), sep)

(***************************************************************************)
(* Regular expressions.  A pattern is a sequence of pieces: a literal, a   *)
(* captured run of digits (\d+), or a captured alternation of literals.    *)
(* Every \d+ of the program's patterns is followed by a non-digit literal  *)
(* or by the end of the pattern, so the greedy run is the only match.      *)
(***************************************************************************)
Lit(chars) == [t |-> "lit", s |-> chars, alts |-> {}, cap |-> FALSE]
Digits(cap) == [t |-> "digits", s |-> <<>>, alts |-> {}, cap |-> cap]
Alt(alts) == [t |-> "alt", s |-> <<>>, alts |-> alts, cap |-> TRUE]

NoMatch == [ok |-> FALSE, groups |-> <<>>]

\* end (exclusive) of the longest run of digits of s that starts at `at`
RECURSIVE DigitRunEnd(_, _)
DigitRunEnd(s, at) ==
    IF at <= Len(s) /\ IsDigitChar(s[at]) THEN DigitRunEnd(s, at + 1) ELSE at

RECURSIVE MatchFrom(_, _, _, _, _)
MatchFrom(pat, p, s, at, groups) ==
    IF p > Len(pat)
    THEN [ok |-> TRUE, groups |-> groups, end |-> at]
    ELSE LET piece == pat[p] IN
         CASE piece.t = "lit" ->
                IF StartsWithAt(s, at, piece.s)
                THEN MatchFrom(pat, p + 1, s, at + Len(piece.s), groups)
                ELSE [ok |-> FALSE, groups |-> <<>>, end |-> at]
           [] piece.t = "digits" ->
                LET e == DigitRunEnd(s, at) IN
                IF e > at
                THEN MatchFrom(pat, p + 1, s, e,
                               IF piece.cap
                               THEN Append(groups, SubSeq(s, at, e - 1))
                               ELSE groups)
                ELSE [ok |-> FALSE, groups |-> <<>>, end |-> at]
           [] piece.t = "alt" ->
                LET fit == {a \in piece.alts : StartsWithAt(s, at, a)} IN
                IF fit # {}
                THEN LET a == CHOOSE a \in fit : TRUE IN
                     MatchFrom(pat, p + 1, s, at + Len(a), Append(groups, a))
                ELSE [ok |-> FALSE, groups |-> <<>>, end |-> at]

\* re.compile(r"^...$").match(s) on a stripped string
ReMatch(pat, s) ==
    LET m == MatchFrom(pat, 1, s, 1, <<>>) IN
    IF m.ok /\ m.end = Len(s) + 1
    THEN [ok |-> TRUE, groups |-> m.groups]
    ELSE NoMatch

\* re.compile(r"lit").search(s)
ReSearch(lit, s) == \E at \in 1 .. Len(s) : StartsWithAt(s, at, lit)

RE_IO_PIN ==
    << Lit(<<"I", "O", "_", "X">>), Digits(TRUE), Lit(<<"Y">>), Digits(TRUE),
       Lit(<<"Z">>), Digits(TRUE), Lit(<<"_">>), Alt({<<"O">>, <<"I">>}) >>

RE_LUT_PIN ==
    << Lit(<<"X">>), Digits(TRUE), Lit(<<"Y">>), Digits(TRUE), Lit(<<"_">>),
       Alt({<<"Q">>, <<"F">>, <<"I", "0">>, <<"I", "1">>, <<"I", "2">>}) >>

RE_GLOBAL_WIRE ==
    << Lit(<<"G", "L", "O", "B", "A", "L", "_", "W", "I", "R", "E", "_">>),
       Digits(FALSE) >>

RE_LOCAL_WIRE ==
    << Lit(<<"L", "O", "C", "A", "L", "_", "X">>), Digits(FALSE),
       Lit(<<"Y">>), Digits(FALSE), Lit(<<"_", "X">>), Digits(FALSE),
       Lit(<<"Y">>), Digits(FALSE), Lit(<<"_">>), Digits(FALSE) >>

RE_GLOBAL_CLK ==
    << Lit(<<"G", "L", "O", "B", "A", "L", "_", "C", "L", "K">>) >>

RE_CELL_CLK ==
    << Lit(<<"X">>), Digits(FALSE), Lit(<<"Y">>), Digits(FALSE),
       Lit(<<"_", "C", "L", "K">>) >>

RE_PIP_FROM == <<"_", "F", "R", "O", "M", "_">>

RE_PIP_TO == <<"_", "T", "O", "_">>

(***************************************************************************)
(* translate_net_from_verilog_to_kicad                                     *)
(***************************************************************************)
\* no outcome yet, and no exception
Pending == [kind |-> "pending", label |-> <<>>, why |-> "", element |-> <<>>]
NoError == [kind |-> "none", label |-> <<>>, why |-> "", element |-> <<>>]

\* return None
Skip == [kind |-> "skip", label |-> <<>>, why |-> "", element |-> <<>>]

\* return f"W_..."
Label(l) == [kind |-> "label", label |-> l, why |-> "", element |-> <<>>]

\* raise TranslationError(f"<why> ...: {element}")
TranslationError(why, el) ==
    [kind |-> "error", label |-> <<>>, why |-> why, element |-> el]

\* TranslateIoPin with the index computed as y + z
TranslateIoPin_FlatIndex(el, g) ==
    LET x == ParseInt(g[1])
        y == ParseInt(g[2])
        z == ParseInt(g[3])
        direction == g[4]
        index == y + z
    IN  IF y \notin VALID_IO_Y THEN TranslationError("io_y_range", el)
        ELSE IF z \notin VALID_IO_Z THEN TranslationError("io_z_range", el)
        ELSE IF x = 0
             THEN IF direction # <<"O">>
                  THEN TranslationError("io_input_direction", el)
                  ELSE Label(<<"W", "_", "I", "O", "_", "I">> \o FormatInt(index))
        ELSE IF x = GRID_X
             THEN IF direction # <<"I">>
                  THEN TranslationError("io_output_direction", el)
                  ELSE Label(<<"W", "_", "I", "O", "_", "O">> \o FormatInt(index))
        ELSE TranslationError("io_x", el)

\* TranslateIoPin that labels the output column like the input column
TranslateIoPin_InputLabelOnly(el, g) ==
    LET x == ParseInt(g[1])
        y == ParseInt(g[2])
        z == ParseInt(g[3])
        direction == g[4]
        index == y * BITS_PER_IO_CELL + z
    IN  IF y \notin VALID_IO_Y THEN TranslationError("io_y_range", el)
        ELSE IF z \notin VALID_IO_Z THEN TranslationError("io_z_range", el)
        ELSE IF x = 0
             THEN IF direction # <<"O">>
                  THEN TranslationError("io_input_direction", el)
                  ELSE Label(<<"W", "_", "I", "O", "_", "I">> \o FormatInt(index))
        ELSE IF x = GRID_X
             THEN IF direction # <<"I">>
                  THEN TranslationError("io_output_direction", el)
                  ELSE Label(<<"W", "_", "I", "O", "_", "I">> \o FormatInt(index))
        ELSE TranslationError("io_x", el)

\* TranslateIoPin without the direction check of the output column
TranslateIoPin_NoOutputDirection(el, g) ==
    LET x == ParseInt(g[1])
        y == ParseInt(g[2])
        z == ParseInt(g[3])
        direction == g[4]
        index == y * BITS_PER_IO_CELL + z
    IN  IF y \notin VALID_IO_Y THEN TranslationError("io_y_range", el)
        ELSE IF z \notin VALID_IO_Z THEN TranslationError("io_z_range", el)
        ELSE IF x = 0
             THEN IF direction # <<"O">>
                  THEN TranslationError("io_input_direction", el)
                  ELSE Label(<<"W", "_", "I", "O", "_", "I">> \o FormatInt(index))
        ELSE IF x = GRID_X
             THEN Label(<<"W", "_", "I", "O", "_", "O">> \o FormatInt(index))
        ELSE TranslationError("io_x", el)

\* lines 98-127, on the stripped element and the match's groups
TranslateIoPin(el, g) ==
    LET x == ParseInt(g[1])
        y == ParseInt(g[2])
        z == ParseInt(g[3])
        direction == g[4]
        index == y * BITS_PER_IO_CELL + z
    IN  IF y \notin VALID_IO_Y THEN TranslationError("io_y_range", el)
        ELSE IF z \notin VALID_IO_Z THEN TranslationError("io_z_range", el)
        ELSE IF x = 0
             THEN IF direction # <<"O">>
                  THEN TranslationError("io_input_direction", el)
                  ELSE Label(<<"W", "_", "I", "O", "_", "I">> \o FormatInt(index))
        ELSE IF x = GRID_X
             THEN IF direction # <<"I">>
                  THEN TranslationError("io_output_direction", el)
                  ELSE Label(<<"W", "_", "I", "O", "_", "O">> \o FormatInt(index))
        ELSE TranslationError("io_x", el)

\* TranslateLutPin that keeps the zero-based input index
TranslateLutPin_ZeroBased(el, g) ==
    LET x == ParseInt(g[1])
        y == ParseInt(g[2])
        suffix == g[3]
    IN  IF x \notin VALID_LUT_X THEN TranslationError("lut_x_range", el)
        ELSE IF y \notin VALID_LUT_Y THEN TranslationError("lut_y_range", el)
        ELSE IF suffix \notin VALID_LUT_SUFFIXES
             THEN TranslationError("lut_suffix", el)
        ELSE Label(<<"W", "_", "X">> \o FormatInt(x - 1) \o <<"_", "Y">>
                   \o FormatInt(y) \o <<"_">> \o suffix)

\* TranslateLutPin that keeps the column of the fabric
TranslateLutPin_NoRebase(el, g) ==
    LET x == ParseInt(g[1])
        y == ParseInt(g[2])
        suffix == g[3]
        out == IF suffix[1] = "I"
               THEN <<"I">> \o FormatInt(ParseInt(<<suffix[2]>>) + 1)
               ELSE suffix
    IN  IF x \notin VALID_LUT_X THEN TranslationError("lut_x_range", el)
        ELSE IF y \notin VALID_LUT_Y THEN TranslationError("lut_y_range", el)
        ELSE IF suffix \notin VALID_LUT_SUFFIXES
             THEN TranslationError("lut_suffix", el)
        ELSE Label(<<"W", "_", "X">> \o FormatInt(x) \o <<"_", "Y">>
                   \o FormatInt(y) \o <<"_">> \o out)

\* lines 129-147
TranslateLutPin(el, g) ==
    LET x == ParseInt(g[1])
        y == ParseInt(g[2])
        suffix == g[3]
        out == IF suffix[1] = "I"
               THEN <<"I">> \o FormatInt(ParseInt(<<suffix[2]>>) + 1)
               ELSE suffix
    IN  IF x \notin VALID_LUT_X THEN TranslationError("lut_x_range", el)
        ELSE IF y \notin VALID_LUT_Y THEN TranslationError("lut_y_range", el)
        ELSE IF suffix \notin VALID_LUT_SUFFIXES
             THEN TranslationError("lut_suffix", el)
        ELSE Label(<<"W", "_", "X">> \o FormatInt(x - 1) \o <<"_", "Y">>
                   \o FormatInt(y) \o <<"_">> \o out)

\* IsSkipped with the PIP markers matched at the start only (match for search)
IsSkipped_MarkerAtStart(el) ==
    \/ ReMatch(RE_GLOBAL_WIRE, el).ok
    \/ ReMatch(RE_LOCAL_WIRE, el).ok
    \/ ReMatch(RE_GLOBAL_CLK, el).ok
    \/ ReMatch(RE_CELL_CLK, el).ok
    \/ StartsWithAt(el, 1, RE_PIP_FROM)
    \/ StartsWithAt(el, 1, RE_PIP_TO)
    \/ IsDigitStr(el)

\* lines 78-96, on the stripped element: the internal names that are skipped
IsSkipped(el) ==
    \/ ReMatch(RE_GLOBAL_WIRE, el).ok
    \/ ReMatch(RE_LOCAL_WIRE, el).ok
    \/ ReMatch(RE_GLOBAL_CLK, el).ok
    \/ ReMatch(RE_CELL_CLK, el).ok
    \/ ReSearch(RE_PIP_FROM, el)
    \/ ReSearch(RE_PIP_TO, el)
    \/ IsDigitStr(el)

\* Translate that returns None for what it does not recognize
Translate_UnknownSkipped(raw) ==
    IF Len(raw) = 0 \/ Len(Strip(raw)) = 0 THEN Skip
    ELSE LET el == Strip(raw)
             io == ReMatch(RE_IO_PIN, el)
             lut == ReMatch(RE_LUT_PIN, el)
         IN  IF IsSkipped(el) THEN Skip
             ELSE IF io.ok THEN TranslateIoPin(el, io.groups)
             ELSE IF lut.ok THEN TranslateLutPin(el, lut.groups)
             ELSE Skip

\* Translate whose errors carry the element as it was given, blanks included
Translate_RawElementInError(raw) ==
    IF Len(raw) = 0 \/ Len(Strip(raw)) = 0 THEN Skip
    ELSE LET el == Strip(raw)
             io == ReMatch(RE_IO_PIN, el)
             lut == ReMatch(RE_LUT_PIN, el)
         IN  IF IsSkipped(el) THEN Skip
             ELSE IF io.ok THEN TranslateIoPin(raw, io.groups)
             ELSE IF lut.ok THEN TranslateLutPin(raw, lut.groups)
             ELSE TranslationError("unrecognized", raw)

Translate(raw) ==
    IF Len(raw) = 0 \/ Len(Strip(raw)) = 0 THEN Skip
    ELSE LET el == Strip(raw)
             io == ReMatch(RE_IO_PIN, el)
             lut == ReMatch(RE_LUT_PIN, el)
         IN  IF IsSkipped(el) THEN Skip
             ELSE IF io.ok THEN TranslateIoPin(el, io.groups)
             ELSE IF lut.ok THEN TranslateLutPin(el, lut.groups)
             ELSE TranslationError("unrecognized", el)

(***************************************************************************)
(* parse_routing                                                           *)
(***************************************************************************)
\* return labels
Returned(labels) == [kind |-> "returned", labels |-> labels, error |-> NoError]

\* the TranslationError of translate propagates: nothing is returned
Raised(err) == [kind |-> "raised", labels |-> <<>>, error |-> err]

\* ParseLoop that appends every label, seen or not
RECURSIVE ParseLoop_NoDedup(_, _, _, _)
ParseLoop_NoDedup(elements, i, labels, seen) ==
    IF i > Len(elements) THEN Returned(labels)
    ELSE LET t == Translate(elements[i]) IN
         IF t.kind = "error" THEN Raised(t)
         ELSE IF t.kind = "label"
              THEN ParseLoop_NoDedup(elements, i + 1, Append(labels, t.label),
                                     seen \cup {t.label})
         ELSE ParseLoop_NoDedup(elements, i + 1, labels, seen)

\* ParseLoop that drops the element translate rejects
RECURSIVE ParseLoop_DropErrors(_, _, _, _)
ParseLoop_DropErrors(elements, i, labels, seen) ==
    IF i > Len(elements) THEN Returned(labels)
    ELSE LET t == Translate(elements[i]) IN
         IF t.kind = "label" /\ t.label \notin seen
         THEN ParseLoop_DropErrors(elements, i + 1, Append(labels, t.label),
                                   seen \cup {t.label})
         ELSE ParseLoop_DropErrors(elements, i + 1, labels, seen)

\* lines 165-169: the loop over the elements, from the i-th on
RECURSIVE ParseLoop(_, _, _, _)
ParseLoop(elements, i, labels, seen) ==
    IF i > Len(elements) THEN Returned(labels)
    ELSE LET t == Translate(elements[i]) IN
         IF t.kind = "error" THEN Raised(t)
         ELSE IF t.kind = "label" /\ t.label \notin seen
              THEN ParseLoop(elements, i + 1, Append(labels, t.label),
                             seen \cup {t.label})
         ELSE ParseLoop(elements, i + 1, labels, seen)

ParseRouting(str) ==
    IF Len(str) = 0 \/ Len(Strip(str)) = 0 THEN Returned(<<>>)
    ELSE ParseLoop(Split(str, ";"), 1, <<>>, {})

(***************************************************************************)
(* process_netnames, one iteration of its loop                             *)
(***************************************************************************)
CLK == <<"c", "l", "k">>

NetInfo(name, labels) == [name |-> name, labels |-> labels]

\* ProcessNetOutcome that skips a net without ROUTING
ProcessNetOutcome_SkipMalformed(net) ==
    IF net.name = CLK THEN [do |-> "continue", error |-> NoError]
    ELSE IF ~net.has_attributes
         THEN [do |-> "raise", error |-> TranslationError("missing_attributes", net.name)]
    ELSE IF ~net.has_routing THEN [do |-> "continue", error |-> NoError]
    ELSE IF Len(Strip(net.routing)) = 0 THEN [do |-> "continue", error |-> NoError]
    ELSE [do |-> "parse", error |-> NoError]

\* ProcessNetOutcome that looks at the attributes before the name
ProcessNetOutcome_ClkAfterAttributes(net) ==
    IF ~net.has_attributes
    THEN [do |-> "raise", error |-> TranslationError("missing_attributes", net.name)]
    ELSE IF ~net.has_routing
         THEN [do |-> "raise", error |-> TranslationError("missing_routing", net.name)]
    ELSE IF net.name = CLK THEN [do |-> "continue", error |-> NoError]
    ELSE IF Len(Strip(net.routing)) = 0 THEN [do |-> "continue", error |-> NoError]
    ELSE [do |-> "parse", error |-> NoError]

\* what one iteration does with the net: "continue", "raise" or "parsed"
ProcessNetOutcome(net) ==
    IF net.name = CLK THEN [do |-> "continue", error |-> NoError]
    ELSE IF ~net.has_attributes
         THEN [do |-> "raise", error |-> TranslationError("missing_attributes", net.name)]
    ELSE IF ~net.has_routing
         THEN [do |-> "raise", error |-> TranslationError("missing_routing", net.name)]
    ELSE IF Len(Strip(net.routing)) = 0 THEN [do |-> "continue", error |-> NoError]
    ELSE [do |-> "parse", error |-> NoError]

(***************************************************************************)
(* list_all_input_nets, collect_unused_input_nets, make_gnd_net            *)
(***************************************************************************)
\* the n-th label of the comprehension: x outermost, then y, then i
\* InputNetAt that keeps the zero-based index of the input
InputNetAt_ZeroBased(n) ==
    LET x == 1 + ((n - 1) \div (GRID_Y * LUT_K))
        y == ((n - 1) \div LUT_K) % GRID_Y
        i == (n - 1) % LUT_K
    IN  <<"W", "_", "X">> \o FormatInt(x - 1) \o <<"_", "Y">> \o FormatInt(y)
            \o <<"_", "I">> \o FormatInt(i)

InputNetAt(n) ==
    LET x == 1 + ((n - 1) \div (GRID_Y * LUT_K))
        y == ((n - 1) \div LUT_K) % GRID_Y
        i == (n - 1) % LUT_K
    IN  <<"W", "_", "X">> \o FormatInt(x - 1) \o <<"_", "Y">> \o FormatInt(y)
            \o <<"_", "I">> \o FormatInt(i + 1)

ListAllInputNets == [n \in 1 .. ((GRID_X - 1) * GRID_Y * LUT_K) |-> InputNetAt(n)]

SeqToSet(seq) == {seq[i] : i \in 1 .. Len(seq)}

AllInputNetsSet == SeqToSet(ListAllInputNets)

\* CollectUnusedInputNets that discards nothing
CollectUnusedInputNets_NoDiscard(netlist) == AllInputNetsSet

CollectUnusedInputNets(netlist) ==
    AllInputNetsSet \ UNION {SeqToSet(netlist[i].labels) : i \in 1 .. Len(netlist)}

Reverse(seq) == [i \in 1 .. Len(seq) |-> seq[Len(seq) + 1 - i]]

\* list(unused_inputs): the iteration order of a set of strings is not fixed;
\* two of its orders are drawn
ListOfSet(set, reversed) ==
    LET inOrder == SelectSeq(ListAllInputNets, LAMBDA l : l \in set)
    IN  IF reversed THEN Reverse(inOrder) ELSE inOrder

W_GND == <<"W", "_", "G", "N", "D">>

SPECIAL_GND_NET ==
    <<"S", "P", "E", "C", "I", "A", "L", "_", "G", "N", "D", "_", "N", "E", "T">>

\* MakeGndNet that leaves the ground label out
MakeGndNet_NoGndLabel(unused, reversed) ==
    NetInfo(SPECIAL_GND_NET, ListOfSet(unused, reversed))

MakeGndNet(unused, reversed) ==
    NetInfo(SPECIAL_GND_NET, Append(ListOfSet(unused, reversed), W_GND))

(***************************************************************************)
(* Routing tokens, written the way hdl/simple.py names wires and PIPs      *)
(***************************************************************************)
MaxCoord == 13
MaxZ == 3
MaxIndex == 2

Coords == 0 .. MaxCoord
CornerCoords == {0, 2, MaxCoord}

IoToken(x, y, z, dir) ==
    <<"I", "O", "_", "X">> \o FormatInt(x) \o <<"Y">> \o FormatInt(y)
        \o <<"Z">> \o FormatInt(z) \o <<"_">> \o dir

CellName(x, y) == <<"X">> \o FormatInt(x) \o <<"Y">> \o FormatInt(y)

LutToken(x, y, suffix) == CellName(x, y) \o <<"_">> \o suffix

InputSuffix(k) == <<"I">> \o FormatInt(k)

GlobalWireToken(i) ==
    <<"G", "L", "O", "B", "A", "L", "_", "W", "I", "R", "E", "_">> \o FormatInt(i)

LocalWireToken(x1, y1, x2, y2, i) ==
    <<"L", "O", "C", "A", "L", "_">> \o CellName(x1, y1) \o <<"_">>
        \o CellName(x2, y2) \o <<"_">> \o FormatInt(i)

GlobalClkToken == <<"G", "L", "O", "B", "A", "L", "_", "C", "L", "K">>

CellClkToken(x, y) == CellName(x, y) \o <<"_", "C", "L", "K">>

FromInfix == <<"_", "F", "R", "O", "M", "_">>
ToInfix == <<"_", "T", "O", "_">>

\* surrounding whitespace, as a trace written with spaces around ';' has
Padded(tok) == <<" ">> \o tok \o <<" ", " ">>

WithPadding(S) == S \cup {Padded(tok) : tok \in S}

IoDirs == { <<"I">>, <<"O">> }

IoTokens ==
    { IoToken(q[1], q[2], q[3], q[4]) :
        q \in Coords \X Coords \X (0 .. MaxZ) \X IoDirs }

\* the I/O pins of the input column and of the output column
ValidIoTokens ==
    { IoToken(0, y, z, <<"O">>) : y \in 0 .. 7, z \in 0 .. (BITS_PER_IO_CELL - 1) }
    \cup
    { IoToken(GRID_X, y, z, <<"I">>) : y \in 0 .. 7, z \in 0 .. (BITS_PER_IO_CELL - 1) }

PinSuffixes == { <<"Q">>, <<"F">> } \cup { InputSuffix(k) : k \in 0 .. (LUT_K - 1) }

LutTokens ==
    { LutToken(q[1], q[2], q[3]) :
        q \in Coords \X Coords
              \X (PinSuffixes \cup { InputSuffix(LUT_K), <<"X">>, <<"E", "N">> }) }

ValidLutTokens ==
    { LutToken(q[1], q[2], q[3]) :
        q \in (1 .. (GRID_X - 1)) \X (0 .. (GRID_Y - 1)) \X PinSuffixes }

\* pins written with a leading zero in a coordinate: int() reads the same number
ZeroLedTokens ==
    { <<"X", "0", "1", "Y", "1", "_", "Q">>,
      <<"X", "1", "Y", "0", "0", "_", "I", "0">>,
      <<"I", "O", "_", "X", "0", "0", "Y", "0", "7", "Z", "0", "1", "_", "O">>,
      <<"I", "O", "_", "X", "1", "2", "Y", "0", "Z", "0", "0", "_", "I">> }

\* internal wires: global wires, local wires, the clocks
WireTokens ==
    { GlobalWireToken(i) : i \in Coords \cup {63} }
    \cup { LocalWireToken(q[1], q[2], q[3], q[4], q[5]) :
             q \in CornerCoords \X CornerCoords \X CornerCoords \X CornerCoords
                   \X (0 .. MaxIndex) }
    \cup { GlobalClkToken }
    \cup { CellClkToken(x, y) : x \in Coords, y \in Coords }

\* what may stand before and after a _FROM_ or _TO_ marker
PipHeads ==
    { <<>>, GlobalClkToken, <<"j", "u", "n", "k">> }
    \cup { GlobalWireToken(i) : i \in {0, MaxCoord} }
    \cup { <<"I", "O", "_">> \o CellName(x, y) \o <<"Z">> \o FormatInt(z) :
             x \in CornerCoords, y \in CornerCoords, z \in {0, MaxZ} }
    \cup { LocalWireToken(1, 1, x, y, 0) : x \in CornerCoords, y \in CornerCoords }
    \cup { CellName(x, y) : x \in CornerCoords, y \in CornerCoords }
    \cup { IoToken(0, 0, 0, <<"O">>), LutToken(1, 1, <<"Q">>) }

PipTails ==
    { <<>>, GlobalClkToken, <<"j", "u", "n", "k">> }
    \cup { <<"I", "O", "_">> \o CellName(x, y) \o <<"Z">> \o FormatInt(z) :
             x \in CornerCoords, y \in CornerCoords, z \in {0, MaxZ} }
    \cup { <<"L", "U", "T", "_">> \o LutToken(x, MaxCoord, s) :
             x \in CornerCoords, s \in { <<"Q">>, InputSuffix(1) } }
    \cup { LutToken(x, y, s) :
             x \in CornerCoords, y \in CornerCoords, s \in { <<"F">>, InputSuffix(LUT_K) } }
    \cup { CellClkToken(x, y) : x \in CornerCoords, y \in CornerCoords }
    \cup { IoToken(0, 0, 0, <<"O">>) }

PipTokens ==
    { q[1] \o q[2] \o q[3] : q \in PipHeads \X {FromInfix, ToInfix} \X PipTails }

NumericTokens ==
    { FormatInt(n) : n \in Coords } \cup { <<"0", "0", "7">> }

BlankTokens == { <<>>, <<" ">>, <<" ", " ">>, <<"\t">>, <<" ", "\t", " ">> }

\* every token of the domain that belongs to the skip set, by construction
SkipTokens ==
    BlankTokens \cup WithPadding(WireTokens \cup PipTokens \cup NumericTokens)

\* names that resemble an internal name or a pin but are neither
OtherTokens ==
    { <<"U", "N", "K", "N", "O", "W", "N", "_", "W", "I", "R", "E">>,
      <<"X", "1", "Y", "1">>,
      <<"X", "1", "Y", "1", "_">>,
      <<"I", "O", "_", "X", "0", "Y", "0", "Z", "0">>,
      <<"I", "O", "_", "X", "0", "Y", "0", "Z", "0", "_", "E", "N">>,
      <<"I", "O", "_", "X", "0", "Y", "0", "_", "O">>,
      <<"G", "L", "O", "B", "A", "L", "_", "W", "I", "R", "E", "_">>,
      <<"G", "L", "O", "B", "A", "L", "_", "W", "I", "R", "E", "_", "1", "x">>,
      <<"G", "L", "O", "B", "A", "L", "_", "C", "L", "K", "S">>,
      <<"X", "G", "L", "O", "B", "A", "L", "_", "C", "L", "K">>,
      <<"L", "O", "C", "A", "L", "_", "X", "1", "Y", "1", "_", "X", "2", "Y", "2">>,
      <<"X", "1", "Y", "1", "_", "C", "L", "K", "2">>,
      <<"x", "1", "y", "1", "_", "q">>,
      <<"X", "1", "Y", "1", "_", "Q", "Q">>,
      <<"X", "1", " ", "Y", "1", "_", "Q">>,
      <<"X", "Y", "1", "_", "Q">>,
      <<"_", "F", "R", "O", "M">>,
      <<"T", "O", "_">>,
      <<"F", "R", "O", "M">>,
      <<"1", "a">>,
      <<"-", "1">>,
      <<"1", " ", "2">>,
      <<"W", "_", "I", "O", "_", "I", "0">> }

TokenDomain ==
    SkipTokens \cup WithPadding(IoTokens \cup LutTokens \cup ZeroLedTokens \cup OtherTokens)

(***************************************************************************)
(* Routing traces and netlists                                             *)
(***************************************************************************)
MaxTraceTokens == 3
MaxNets == 2

\* ";".join(tokens)
RECURSIVE Join(_)
Join(tokens) ==
    IF Len(tokens) = 0 THEN <<>>
    ELSE IF Len(tokens) = 1 THEN tokens[1]
    ELSE tokens[1] \o <<";">> \o Join(Tail(tokens))

BadToken == <<"B", "A", "D">>

\* tokens of the traces: pins (one of them written three ways), internal
\* names, blanks, an unrecognized name and a pin outside the grid
TraceTokens ==
    { LutToken(1, 1, <<"Q">>),
      Padded(LutToken(1, 1, <<"Q">>)),
      <<"X", "0", "1", "Y", "1", "_", "Q">>,
      LutToken(2, 2, InputSuffix(1)),
      IoToken(0, 2, 1, <<"O">>),
      <<>>,
      <<"1">>,
      GlobalWireToken(11) \o FromInfix \o <<"I", "O", "_", "X", "0", "Y", "2", "Z", "1">>,
      BadToken,
      LutToken(0, 0, <<"Q">>) }

TokenSeqs == UNION { [1 .. n -> TraceTokens] : n \in 1 .. MaxTraceTokens }

TraceDomain == { Join(ts) : ts \in TokenSeqs } \cup { <<" ", " ">> }

\* the traces of the nets of a netlist
RoutingPool ==
    { <<>>,
      <<" ">>,
      Join(<<LutToken(2, 2, InputSuffix(1)), <<>>, <<"1">>, LutToken(1, 1, <<"Q">>)>>),
      Join(<<IoToken(0, 2, 1, <<"O">>), GlobalWireToken(11),
             LutToken(2, 2, InputSuffix(1)), <<"1">>>>),
      Join(<<GlobalWireToken(11), <<"1">>>>),
      Join(<<LutToken(1, 1, <<"Q">>), BadToken, LutToken(1, 1, <<"F">>)>>),
      Join(<<Padded(IoToken(0, 0, 0, <<"I">>)), BadToken>>),
      Join(<<GlobalWireToken(11), Padded(LutToken(0, 0, <<"Q">>))>>),
      Join(<<LutToken(GRID_X - 1, GRID_Y - 1, InputSuffix(LUT_K - 1))>>) }

\* the name of the i-th net of a netlist, when it is not the clock net
NetName(i) == <<"n">> \o FormatInt(i)

Net(name, has_attributes, has_routing, routing) ==
    [name |-> name, has_attributes |-> has_attributes,
     has_routing |-> has_routing, routing |-> routing]

\* attributes of a net: none, without ROUTING, or with a trace
NetBodies ==
    { Net(<<>>, FALSE, FALSE, <<>>), Net(<<>>, TRUE, FALSE, <<>>) }
    \cup { Net(<<>>, TRUE, TRUE, r) : r \in RoutingPool }

\* a dict of at most MaxNets nets, in its iteration order: the names are
\* distinct and at most one of them is clk (at position c)
Netlists ==
    UNION { { [i \in 1 .. n |->
                 Net(IF i = c THEN CLK ELSE NetName(i), body[i].has_attributes,
                     body[i].has_routing, body[i].routing)] :
              body \in [1 .. n -> NetBodies], c \in 0 .. n } :
            n \in 0 .. MaxNets }

(***************************************************************************)
(* hdl/simple.py: the fabric generator.  Every ctx.add* call is an entry   *)
(* of the list ctx, in the order of the calls; the delay of a PIP is       *)
(* always getDelayFromNS(0.0) and is left out.                             *)
(***************************************************************************)
\* the setting of the repository
X == 12
Y == 12
K == 3
GLOBAL_WIRE_COUNT == 4 * 16
IO_ROWS == 8
bits_per_io_cell == 4

Grid(x, y, k, wires, rows, bits) ==
    [X |-> x, Y |-> y, K |-> k, GLOBAL_WIRE_COUNT |-> wires, IO_ROWS |-> rows,
     bits_per_io_cell |-> bits]

RECURSIVE Flatten(_)
Flatten(seqs) == IF seqs = <<>> THEN <<>> ELSE Head(seqs) \o Flatten(Tail(seqs))

\* lut_cell_coords that starts at column 0, the column of the I/O cells
lut_cell_coords_FromColumnZero(g) ==
    LET nx == IF g.X > 0 THEN g.X ELSE 0
        ny == IF g.Y > 0 THEN g.Y ELSE 0
    IN  [n \in 1 .. (nx * ny) |-> <<(n - 1) \div ny, (n - 1) % ny>>]

\* x outermost, then y
lut_cell_coords(g) ==
    LET nx == IF g.X > 1 THEN g.X - 1 ELSE 0
        ny == IF g.Y > 0 THEN g.Y ELSE 0
    IN  [n \in 1 .. (nx * ny) |-> <<1 + ((n - 1) \div ny), (n - 1) % ny>>]

io_cell_coords(g) == [n \in 1 .. g.IO_ROWS |-> <<0, n - 1>>]

AddWire(name, type, x, y) ==
    [op |-> "addWire", name |-> name, type |-> type, x |-> x, y |-> y]

AddBel(name, type, loc) ==
    [op |-> "addBel", name |-> name, type |-> type, loc |-> loc]

AddBelInput(bel, name, wire) ==
    [op |-> "addBelInput", bel |-> bel, name |-> name, wire |-> wire]

AddBelOutput(bel, name, wire) ==
    [op |-> "addBelOutput", bel |-> bel, name |-> name, wire |-> wire]

AddPip(name, type, srcWire, dstWire, loc) ==
    [op |-> "addPip", name |-> name, type |-> type, srcWire |-> srcWire,
     dstWire |-> dstWire, loc |-> loc]

make_global_signal(g, name) ==
    << AddWire(<<"G", "L", "O", "B", "A", "L", "_">> \o name, "GLOBAL",
               g.X \div 2, g.Y \div 2) >>

SliceName(x, y) == CellName(x, y) \o <<"_", "S", "L", "I", "C", "E">>

\* build_lut_cell without the PIP of the clock
build_lut_cell_NoClockPip(g, x, y) ==
    << AddWire(CellClkToken(x, y), "BEL_CLK", x, y),
       AddWire(LutToken(x, y, <<"F">>), "BEL_F", x, y),
       AddWire(LutToken(x, y, <<"Q">>), "BEL_Q", x, y) >>
    \o [n \in 1 .. g.K |-> AddWire(LutToken(x, y, InputSuffix(n - 1)), "BEL_I", x, y)]
    \o << AddBel(SliceName(x, y), "GENERIC_SLICE", <<x, y, 0>>),
          AddBelInput(SliceName(x, y), <<"C", "L", "K">>, CellClkToken(x, y)),
          AddBelOutput(SliceName(x, y), <<"F">>, LutToken(x, y, <<"F">>)),
          AddBelOutput(SliceName(x, y), <<"Q">>, LutToken(x, y, <<"Q">>)) >>
    \o [n \in 1 .. g.K |->
          AddBelInput(SliceName(x, y), <<"I", "[">> \o FormatInt(n - 1) \o <<"]">>,
                      LutToken(x, y, InputSuffix(n - 1)))]

build_lut_cell(g, x, y) ==
    << AddWire(CellClkToken(x, y), "BEL_CLK", x, y),
       AddWire(LutToken(x, y, <<"F">>), "BEL_F", x, y),
       AddWire(LutToken(x, y, <<"Q">>), "BEL_Q", x, y) >>
    \o [n \in 1 .. g.K |-> AddWire(LutToken(x, y, InputSuffix(n - 1)), "BEL_I", x, y)]
    \o << AddBel(SliceName(x, y), "GENERIC_SLICE", <<x, y, 0>>),
          AddBelInput(SliceName(x, y), <<"C", "L", "K">>, CellClkToken(x, y)),
          AddBelOutput(SliceName(x, y), <<"F">>, LutToken(x, y, <<"F">>)),
          AddBelOutput(SliceName(x, y), <<"Q">>, LutToken(x, y, <<"Q">>)) >>
    \o [n \in 1 .. g.K |->
          AddBelInput(SliceName(x, y), <<"I", "[">> \o FormatInt(n - 1) \o <<"]">>,
                      LutToken(x, y, InputSuffix(n - 1)))]
    \o << AddPip(GlobalClkToken \o ToInfix \o CellClkToken(x, y), "GLOBAL_CLOCK",
                 GlobalClkToken, CellClkToken(x, y), <<x, y, 0>>) >>

\* IO_X{x}Y{y}Z{z}
IoSlotName(x, y, z) ==
    <<"I", "O", "_">> \o CellName(x, y) \o <<"Z">> \o FormatInt(z)

IoBelName(x, y, z) == CellName(x, y) \o <<"Z">> \o FormatInt(z) \o <<"_", "I", "O">>

\* one z-slot of an I/O cell, its clock PIP added before its wires
IoSlot_PipFirst(x, y, z) ==
    << AddPip(IoSlotName(x, y, z) \o ToInfix \o GlobalClkToken, "GLOBAL_CLOCK",
              IoToken(x, y, z, <<"O">>), GlobalClkToken, <<x, y, z>>),
       AddBel(IoBelName(x, y, z), "GENERIC_IOB", <<x, y, z>>),
       AddWire(IoToken(x, y, z, <<"I">>), "BEL_I", x, y),
       AddBelInput(IoBelName(x, y, z), <<"I">>, IoToken(x, y, z, <<"I">>)),
       AddWire(IoToken(x, y, z, <<"E", "N">>), "BEL_I", x, y),
       AddBelInput(IoBelName(x, y, z), <<"E", "N">>, IoToken(x, y, z, <<"E", "N">>)),
       AddWire(IoToken(x, y, z, <<"O">>), "BEL_Q", x, y),
       AddBelOutput(IoBelName(x, y, z), <<"O">>, IoToken(x, y, z, <<"O">>)) >>

\* lines 64-80: one z-slot of an I/O cell
IoSlot(x, y, z) ==
    << AddBel(IoBelName(x, y, z), "GENERIC_IOB", <<x, y, z>>),
       AddWire(IoToken(x, y, z, <<"I">>), "BEL_I", x, y),
       AddBelInput(IoBelName(x, y, z), <<"I">>, IoToken(x, y, z, <<"I">>)),
       AddWire(IoToken(x, y, z, <<"E", "N">>), "BEL_I", x, y),
       AddBelInput(IoBelName(x, y, z), <<"E", "N">>, IoToken(x, y, z, <<"E", "N">>)),
       AddWire(IoToken(x, y, z, <<"O">>), "BEL_Q", x, y),
       AddBelOutput(IoBelName(x, y, z), <<"O">>, IoToken(x, y, z, <<"O">>)),
       AddPip(IoSlotName(x, y, z) \o ToInfix \o GlobalClkToken, "GLOBAL_CLOCK",
              IoToken(x, y, z, <<"O">>), GlobalClkToken, <<x, y, z>>) >>

build_io_cell(g, x, y) ==
    Flatten([n \in 1 .. g.bits_per_io_cell |-> IoSlot(x, y, n - 1)])

LutInfix == <<"L", "U", "T", "_">>

\* the two PIPs of a z-slot, both under the name of the first
GlobalWireIoPips_OneName(i, x, y, z) ==
    << AddPip(GlobalWireToken(i) \o FromInfix \o IoSlotName(x, y, z), "GLOBAL_IO",
              IoToken(x, y, z, <<"O">>), GlobalWireToken(i), <<x, y, 0>>),
       AddPip(GlobalWireToken(i) \o FromInfix \o IoSlotName(x, y, z), "GLOBAL_IO",
              GlobalWireToken(i), IoToken(x, y, z, <<"I">>), <<x, y, 0>>) >>

\* lines 94-102: the PIPs between global wire i and one z-slot
GlobalWireIoPips(i, x, y, z) ==
    << AddPip(GlobalWireToken(i) \o FromInfix \o IoSlotName(x, y, z), "GLOBAL_IO",
              IoToken(x, y, z, <<"O">>), GlobalWireToken(i), <<x, y, 0>>),
       AddPip(GlobalWireToken(i) \o ToInfix \o IoSlotName(x, y, z), "GLOBAL_IO",
              GlobalWireToken(i), IoToken(x, y, z, <<"I">>), <<x, y, 0>>) >>

\* the PIPs of a logic cell without the one from its F
GlobalWireLutPips_NoF(g, i, x, y) ==
    << AddPip(GlobalWireToken(i) \o FromInfix \o LutInfix \o LutToken(x, y, <<"Q">>),
              "GLOBAL_LUT", LutToken(x, y, <<"Q">>), GlobalWireToken(i), <<x, y, 0>>) >>
    \o [n \in 1 .. g.K |->
          AddPip(GlobalWireToken(i) \o ToInfix \o LutInfix
                     \o LutToken(x, y, InputSuffix(n - 1)),
                 "GLOBAL_LUT", GlobalWireToken(i), LutToken(x, y, InputSuffix(n - 1)),
                 <<x, y, 0>>)]

\* lines 104-118: the PIPs between global wire i and one logic cell
GlobalWireLutPips(g, i, x, y) ==
    << AddPip(GlobalWireToken(i) \o FromInfix \o LutInfix \o LutToken(x, y, <<"Q">>),
              "GLOBAL_LUT", LutToken(x, y, <<"Q">>), GlobalWireToken(i), <<x, y, 0>>),
       AddPip(GlobalWireToken(i) \o FromInfix \o LutInfix \o LutToken(x, y, <<"F">>),
              "GLOBAL_LUT", LutToken(x, y, <<"F">>), GlobalWireToken(i), <<x, y, 0>>) >>
    \o [n \in 1 .. g.K |->
          AddPip(GlobalWireToken(i) \o ToInfix \o LutInfix
                     \o LutToken(x, y, InputSuffix(n - 1)),
                 "GLOBAL_LUT", GlobalWireToken(i), LutToken(x, y, InputSuffix(n - 1)),
                 <<x, y, 0>>)]

make_global_wire(g, i) ==
    << AddWire(GlobalWireToken(i), "GLOBAL", g.X \div 2, g.Y \div 2) >>
    \o Flatten([c \in 1 .. Len(io_cell_coords(g)) |->
                  Flatten([n \in 1 .. g.bits_per_io_cell |->
                             GlobalWireIoPips(i, io_cell_coords(g)[c][1],
                                              io_cell_coords(g)[c][2], n - 1)])])
    \o Flatten([c \in 1 .. Len(lut_cell_coords(g)) |->
                  GlobalWireLutPips(g, i, lut_cell_coords(g)[c][1],
                                    lut_cell_coords(g)[c][2])])

\* the policy with two wires up to distance 6
distance_to_interconnect_count_Six(distance) ==
    IF distance = 0 THEN 0
    ELSE IF distance = 1 THEN 4
    ELSE IF distance \in {2, 3} THEN 3
    ELSE IF distance \in {4, 5, 6} THEN 2
    ELSE 0

distance_to_interconnect_count(distance) ==
    IF distance = 0 THEN 0
    ELSE IF distance = 1 THEN 4
    ELSE IF distance \in {2, 3} THEN 3
    ELSE IF distance \in {4, 5} THEN 2
    ELSE 0

Abs(n) == IF n < 0 THEN -n ELSE n

\* lines 151-162: the PIPs between a local wire and one of its two cells
LocalWirePips(g, wire_name, xx, yy) ==
    << AddPip(wire_name \o FromInfix \o LutToken(xx, yy, <<"F">>), "LOCAL_INTERCONNECT",
              LutToken(xx, yy, <<"F">>), wire_name, <<xx, yy, 0>>),
       AddPip(wire_name \o FromInfix \o LutToken(xx, yy, <<"Q">>), "LOCAL_INTERCONNECT",
              LutToken(xx, yy, <<"Q">>), wire_name, <<xx, yy, 0>>) >>
    \o [n \in 1 .. g.K |->
          AddPip(wire_name \o ToInfix \o LutToken(xx, yy, InputSuffix(n - 1)),
                 "LOCAL_INTERCONNECT", wire_name, LutToken(xx, yy, InputSuffix(n - 1)),
                 <<xx, yy, 0>>)]

make_local_interconnects(g, x1, y1, x2, y2) ==
    LET distance == Abs(x1 - x2) + Abs(y1 - y2)
        count == distance_to_interconnect_count(distance)
    IN  IF count = 0 THEN <<>>
        ELSE Flatten([n \in 1 .. count |->
                        LET wire_name == LocalWireToken(x1, y1, x2, y2, n - 1)
                        IN  << AddWire(wire_name, "LOCAL", x1, y1) >>
                            \o LocalWirePips(g, wire_name, x1, y1)
                            \o LocalWirePips(g, wire_name, x2, y2)])

\* both orders of every pair: itertools.permutations(iterable, 2)
Combinations_BothOrders(list) ==
    LET n == Len(list)
    IN  [m \in 1 .. (n * (n - 1)) |->
           LET i == 1 + ((m - 1) \div (n - 1))
               r == 1 + ((m - 1) % (n - 1))
               j == IF r < i THEN r ELSE r + 1
           IN  <<list[i], list[j]>>]

\* the pairs in an order that depends on the run, as the iteration of a set
\* of tuples would give
Combinations_RunOrder(list) ==
    LET n == Len(list)
        total == (n * (n - 1)) \div 2
        Before(i) == ((i - 1) * (2 * n - i)) \div 2
        pairs == {p \in (1 .. n) \X (1 .. n) : p[1] < p[2]}
    IN  [m \in 1 .. total |->
           LET at == IF gen_run = 1 THEN m ELSE total + 1 - m
               p == CHOOSE p \in pairs : Before(p[1]) + (p[2] - p[1]) = at
           IN  <<list[p[1]], list[p[2]]>>]

\* itertools.combinations(iterable, 2): the pairs of positions i < j, in
\* lexicographic order
Combinations(list) ==
    LET n == Len(list)
        Before(i) == ((i - 1) * (2 * n - i)) \div 2
        pairs == {p \in (1 .. n) \X (1 .. n) : p[1] < p[2]}
    IN  [m \in 1 .. ((n * (n - 1)) \div 2) |->
           LET p == CHOOSE p \in pairs : Before(p[1]) + (p[2] - p[1]) = m
           IN  <<list[p[1]], list[p[2]]>>]

\* lines 170-178: its loop body is pass; nothing calls it
make_io_to_lut_interconnects(g, x_io, y_io, x_lut, y_lut) ==
    LET distance == Abs(x_io - x_lut) + Abs(y_io - y_lut)
        count == distance_to_interconnect_count(distance)
    IN  IF count = 0 THEN <<>> ELSE Flatten([n \in 1 .. count |-> <<>>])

(***************************************************************************)
(* Program state                                                           *)
(***************************************************************************)
NoSchematic == [written |-> FALSE, nets |-> <<>>]

TranslateIdle == element = <<>> /\ translated = Pending

ParseIdle == routing_str = <<>> /\ parsed = Pending

MainIdle ==
    /\ pnrtop = "ok"
    /\ netnames = <<>>
    /\ net_i = 0
    /\ acc = <<>>
    /\ nets = <<>>
    /\ unused_inputs = {}
    /\ error = NoError
    /\ schematic = NoSchematic

\* hdl/simple.py has not run: its setting is the one of the repository
FabricIdle ==
    /\ grid = Grid(X, Y, K, GLOBAL_WIRE_COUNT, IO_ROWS, bits_per_io_cell)
    /\ ctx = <<>>
    /\ gen_i = 0
    /\ gen_run = 1
    /\ prev_ctx = <<>>

\* the scripts of the schematic have not run
NoCell == [pnr_x |-> 0, pnr_y |-> 0, init |-> <<>>, ff_used |-> FALSE]

NoLutError == [kind |-> "none", why |-> "", sheet |-> <<>>]

LutsIdle ==
    /\ sheet_lookup = {}
    /\ cell = NoCell
    /\ used_sheets = {}
    /\ sheet_props = <<>>
    /\ lut_error = NoLutError

(***************************************************************************)
(* The translator alone: test_translate_net, test_translate_net_errors     *)
(***************************************************************************)
InitTranslate ==
    /\ pc = "translate_call"
    /\ element \in TokenDomain
    /\ translated = Pending
    /\ ParseIdle
    /\ MainIdle
    /\ FabricIdle
    /\ LutsIdle

TranslateCall ==
    /\ pc = "translate_call"
    /\ pc' = "translate_done"
    /\ translated' = Translate(element)
    /\ UNCHANGED <<luts_vars, fabric_vars, element, routing_str, parsed, pnrtop, netnames, net_i, acc,
                   nets, unused_inputs, error, schematic>>

NextTranslate == TranslateCall

SpecTranslate == InitTranslate /\ [][NextTranslate]_vars

(***************************************************************************)
(* parse_routing alone: test_parse_routing_*                               *)
(***************************************************************************)
InitParse ==
    /\ pc = "parse_call"
    /\ routing_str \in TraceDomain
    /\ parsed = Pending
    /\ TranslateIdle
    /\ MainIdle
    /\ FabricIdle
    /\ LutsIdle

ParseCall ==
    /\ pc = "parse_call"
    /\ pc' = "parse_done"
    /\ parsed' = ParseRouting(routing_str)
    /\ UNCHANGED <<luts_vars, fabric_vars, element, translated, routing_str, pnrtop, netnames, net_i,
                   acc, nets, unused_inputs, error, schematic>>

NextParse == ParseCall

SpecParse == InitParse /\ [][NextParse]_vars

(***************************************************************************)
(* main                                                                    *)
(***************************************************************************)
Init ==
    /\ pc = "load_pnrtop"
    /\ pnrtop \in {"ok", "no_modules", "no_top", "no_netnames"}
    /\ netnames \in (IF pnrtop = "ok" THEN Netlists ELSE {<<>>})
    /\ net_i = 0
    /\ acc = <<>>
    /\ nets = <<>>
    /\ unused_inputs = {}
    /\ error = NoError
    /\ schematic = NoSchematic
    /\ TranslateIdle
    /\ ParseIdle
    /\ FabricIdle
    /\ LutsIdle

\* the exception leaves main: the run is over and its locals are gone
Fail(err) ==
    /\ pc' = "failed"
    /\ error' = err
    /\ acc' = <<>>

\* lines 341-352
LoadPnrtop ==
    /\ pc = "load_pnrtop"
    /\ IF pnrtop = "ok"
       THEN pc' = "process_netnames" /\ UNCHANGED <<error, acc>>
       ELSE Fail(TranslationError(pnrtop, <<>>))
    /\ UNCHANGED <<luts_vars, fabric_vars, element, translated, routing_str, parsed, pnrtop, netnames,
                   net_i, nets, unused_inputs, schematic>>

\* ProcessNet that also keeps the record of a net without labels
ProcessNet_KeepEmpty ==
    /\ pc = "process_netnames"
    /\ net_i < Len(netnames)
    /\ net_i' = net_i + 1
    /\ LET net == netnames[net_i + 1]
           outcome == ProcessNetOutcome(net)
           labels == ParseRouting(net.routing)
       IN  CASE outcome.do = "continue" ->
                  UNCHANGED <<pc, error, acc, routing_str, parsed>>
             [] outcome.do = "raise" ->
                  Fail(outcome.error) /\ UNCHANGED <<routing_str, parsed>>
             [] outcome.do = "parse" ->
                  /\ routing_str' = net.routing
                  /\ parsed' = labels
                  /\ IF labels.kind = "raised" THEN Fail(labels.error)
                     ELSE /\ UNCHANGED <<pc, error>>
                          /\ acc' = Append(acc, NetInfo(net.name, labels.labels))
    /\ UNCHANGED <<luts_vars, fabric_vars, element, translated, pnrtop, netnames, nets, unused_inputs,
                   schematic>>

\* lines 189-213: one iteration of the loop of process_netnames
ProcessNet ==
    /\ pc = "process_netnames"
    /\ net_i < Len(netnames)
    /\ net_i' = net_i + 1
    /\ LET net == netnames[net_i + 1]
           outcome == ProcessNetOutcome(net)
           labels == ParseRouting(net.routing)
       IN  CASE outcome.do = "continue" ->
                  UNCHANGED <<pc, error, acc, routing_str, parsed>>
             [] outcome.do = "raise" ->
                  Fail(outcome.error) /\ UNCHANGED <<routing_str, parsed>>
             [] outcome.do = "parse" ->
                  /\ routing_str' = net.routing
                  /\ parsed' = labels
                  /\ IF labels.kind = "raised" THEN Fail(labels.error)
                     ELSE /\ UNCHANGED <<pc, error>>
                          /\ acc' = IF Len(labels.labels) > 0
                                    THEN Append(acc, NetInfo(net.name, labels.labels))
                                    ELSE acc
    /\ UNCHANGED <<luts_vars, fabric_vars, element, translated, pnrtop, netnames, nets, unused_inputs,
                   schematic>>

\* line 215 and line 356: return nets
ProcessReturn ==
    /\ pc = "process_netnames"
    /\ net_i = Len(netnames)
    /\ nets' = acc
    /\ pc' = "load_schematic"
    /\ UNCHANGED <<luts_vars, fabric_vars, element, translated, routing_str, parsed, pnrtop, netnames,
                   net_i, acc, unused_inputs, error, schematic>>

\* lines 359-366: the schematic is read and cleared in memory
LoadSchematic ==
    /\ pc = "load_schematic"
    /\ pc' = "ground"
    /\ UNCHANGED <<luts_vars, fabric_vars, element, translated, routing_str, parsed, pnrtop, netnames,
                   net_i, acc, nets, unused_inputs, error, schematic>>

\* lines 368-374
GroundStep ==
    /\ pc = "ground"
    /\ \E reversed \in BOOLEAN :
         LET unused == CollectUnusedInputNets(nets) IN
         /\ unused_inputs' = unused
         /\ nets' = Append(nets, MakeGndNet(unused, reversed))
    /\ pc' = "generate"
    /\ UNCHANGED <<luts_vars, fabric_vars, element, translated, routing_str, parsed, pnrtop, netnames,
                   net_i, acc, error, schematic>>

\* lines 376-382: every net is drawn and the schematic is written
GenerateAndSave ==
    /\ pc = "generate"
    /\ schematic' = [written |-> TRUE, nets |-> nets]
    /\ pc' = "done"
    /\ UNCHANGED <<luts_vars, fabric_vars, element, translated, routing_str, parsed, pnrtop, netnames,
                   net_i, acc, nets, unused_inputs, error>>

Next ==
    \/ LoadPnrtop
    \/ ProcessNet
    \/ ProcessReturn
    \/ LoadSchematic
    \/ GroundStep
    \/ GenerateAndSave

Spec == Init /\ [][Next]_vars

(***************************************************************************)
(* hdl/simple.py, run by nextpnr-generic --pre-pack: one step for every    *)
(* call of a builder at the top level of the script                        *)
(***************************************************************************)
MaxGridX == 8
MaxGridY == 7
MaxCells == 7
MaxK == 2
MaxGlobalWires == 2
MaxIoRows == 2
MaxIoBits == 2
MaxSize == 48

\* the pairs of logic cells of a setting: what the last loop iterates
Pairs(x, y) == IF x = 0 THEN 0 ELSE (((x - 1) * y) * ((x - 1) * y - 1)) \div 2

\* the settings the script is run with, a width or a height of 0 among
\* them: at most MaxCells logic cells, and
\* the product of the numbers of choices its loops run over is at most
\* MaxSize
Grids ==
    { Grid(q[1], q[2], q[3], q[4], q[5], q[6]) :
        q \in { r \in (0 .. MaxGridX) \X (0 .. MaxGridY) \X (0 .. MaxK)
                      \X (0 .. MaxGlobalWires) \X (0 .. MaxIoRows) \X (0 .. MaxIoBits) :
                  /\ (r[1] - 1) * r[2] <= MaxCells
                  /\ (Pairs(r[1], r[2]) + 1) * (r[3] + 1) * (r[4] + 1)
                         * (r[5] + 1) * (r[6] + 1) <= MaxSize } }

InitFabric ==
    /\ pc = "make_global_signal"
    /\ grid \in Grids
    /\ ctx = <<>>
    /\ gen_i = 0
    /\ gen_run = 1
    /\ prev_ctx = <<>>
    /\ TranslateIdle
    /\ ParseIdle
    /\ MainIdle
    /\ LutsIdle

main_vars == <<element, translated, routing_str, parsed, pnrtop, netnames,
               net_i, acc, nets, unused_inputs, error, schematic>>

\* line 29
MakeGlobalClk ==
    /\ pc = "make_global_signal"
    /\ ctx' = ctx \o make_global_signal(grid, <<"C", "L", "K">>)
    /\ pc' = "build_lut_cell"
    /\ gen_i' = 0
    /\ UNCHANGED <<grid, gen_run, prev_ctx, main_vars, luts_vars>>

\* lines 58-59, one iteration
BuildLutCell ==
    /\ pc = "build_lut_cell"
    /\ gen_i < Len(lut_cell_coords(grid))
    /\ LET c == lut_cell_coords(grid)[gen_i + 1]
       IN  ctx' = ctx \o build_lut_cell(grid, c[1], c[2])
    /\ gen_i' = gen_i + 1
    /\ UNCHANGED <<pc, grid, gen_run, prev_ctx, main_vars, luts_vars>>

\* lines 83-84, one iteration
BuildIoCell ==
    /\ pc = "build_io_cell"
    /\ gen_i < Len(io_cell_coords(grid))
    /\ LET c == io_cell_coords(grid)[gen_i + 1]
       IN  ctx' = ctx \o build_io_cell(grid, c[1], c[2])
    /\ gen_i' = gen_i + 1
    /\ UNCHANGED <<pc, grid, gen_run, prev_ctx, main_vars, luts_vars>>

\* lines 121-122, one iteration
MakeGlobalWire ==
    /\ pc = "make_global_wire"
    /\ gen_i < grid.GLOBAL_WIRE_COUNT
    /\ ctx' = ctx \o make_global_wire(grid, gen_i)
    /\ gen_i' = gen_i + 1
    /\ UNCHANGED <<pc, grid, gen_run, prev_ctx, main_vars, luts_vars>>

\* lines 166-167, one iteration
MakeLocalInterconnects ==
    /\ pc = "make_local_interconnects"
    /\ gen_i < Len(Combinations(lut_cell_coords(grid)))
    /\ LET p == Combinations(lut_cell_coords(grid))[gen_i + 1]
       IN  ctx' = ctx \o make_local_interconnects(grid, p[1][1], p[1][2], p[2][1], p[2][2])
    /\ gen_i' = gen_i + 1
    /\ UNCHANGED <<pc, grid, gen_run, prev_ctx, main_vars, luts_vars>>

\* the number of iterations of the loop the script is in
LoopLength ==
    CASE pc = "build_lut_cell" -> Len(lut_cell_coords(grid))
      [] pc = "build_io_cell" -> Len(io_cell_coords(grid))
      [] pc = "make_global_wire" -> IF grid.GLOBAL_WIRE_COUNT > 0
                                    THEN grid.GLOBAL_WIRE_COUNT ELSE 0
      [] pc = "make_local_interconnects" -> Len(Combinations(lut_cell_coords(grid)))
      [] OTHER -> 0

\* the statement after each loop of the script
AfterLoop ==
    [build_lut_cell |-> "build_io_cell",
     build_io_cell |-> "make_global_wire",
     make_global_wire |-> "make_local_interconnects",
     make_local_interconnects |-> "fabric_done"]

\* a loop is exhausted: the script goes on with the next statement
LoopExit ==
    /\ pc \in DOMAIN AfterLoop
    /\ gen_i = LoopLength
    /\ pc' = AfterLoop[pc]
    /\ gen_i' = 0
    /\ UNCHANGED <<grid, ctx, gen_run, prev_ctx, main_vars, luts_vars>>

\* the script is run once more with the same setting, in a fresh ctx
RunAgain ==
    /\ pc = "fabric_done"
    /\ gen_run = 1
    /\ prev_ctx' = ctx
    /\ ctx' = <<>>
    /\ gen_run' = 2
    /\ gen_i' = 0
    /\ pc' = "make_global_signal"
    /\ UNCHANGED <<grid, main_vars, luts_vars>>

NextFabric ==
    \/ MakeGlobalClk
    \/ BuildLutCell
    \/ BuildIoCell
    \/ MakeGlobalWire
    \/ MakeLocalInterconnects
    \/ LoopExit
    \/ RunAgain

SpecFabric == InitFabric /\ [][NextFabric]_vars

(***************************************************************************)
(* Properties of the translator                                            *)
(***************************************************************************)
TranslateDone == pc = "translate_done"

W_IO_I == <<"W", "_", "I", "O", "_", "I">>
W_IO_O == <<"W", "_", "I", "O", "_", "O">>

LutLabel(x, y, suffix) ==
    <<"W", "_", "X">> \o FormatInt(x) \o <<"_", "Y">> \o FormatInt(y)
        \o <<"_">> \o suffix

\* token and expected label of every valid I/O pin
ExpectedIoLabels ==
    { <<IoToken(0, q[1], q[2], <<"O">>),
        W_IO_I \o FormatInt(q[1] * BITS_PER_IO_CELL + q[2])>> :
        q \in (0 .. 7) \X (0 .. (BITS_PER_IO_CELL - 1)) }
    \cup
    { <<IoToken(GRID_X, q[1], q[2], <<"I">>),
        W_IO_O \o FormatInt(q[1] * BITS_PER_IO_CELL + q[2])>> :
        q \in (0 .. 7) \X (0 .. (BITS_PER_IO_CELL - 1)) }

\* C3: a valid I/O pin of the input column (x = 0, direction O) translates to
\* the external-input label of index y*BITS_PER_IO_CELL + z, and a valid I/O
\* pin of the output column (x = GRID_X, direction I) to the external-output
\* label of the same index.
C3_IoPinLabel ==
    TranslateDone =>
        \A p \in ExpectedIoLabels : element = p[1] => translated = Label(p[2])

C3_Witness ==
    /\ TranslateDone
    /\ element = IoToken(GRID_X, 7, 1, <<"I">>)
    /\ translated = Label(W_IO_O \o <<"1", "5">>)

\* token and expected label of every valid logic pin
ExpectedLutLabels ==
    { <<LutToken(q[1], q[2], q[3]), LutLabel(q[1] - 1, q[2], q[3])>> :
        q \in (1 .. (GRID_X - 1)) \X (0 .. (GRID_Y - 1)) \X { <<"Q">>, <<"F">> } }
    \cup
    { <<LutToken(q[1], q[2], InputSuffix(q[3])),
        LutLabel(q[1] - 1, q[2], InputSuffix(q[3] + 1))>> :
        q \in (1 .. (GRID_X - 1)) \X (0 .. (GRID_Y - 1)) \X (0 .. (LUT_K - 1)) }

\* C4: a logic pin X<x>Y<y>_<suffix> with x in 1..GRID_X-1, y in 0..GRID_Y-1
\* translates to the label of column x-1 and row y, with Q and F unchanged
\* and input I<k> renamed I<k+1>.
C4_LutPinLabel ==
    TranslateDone =>
        \A p \in ExpectedLutLabels : element = p[1] => translated = Label(p[2])

C4_Witness ==
    /\ TranslateDone
    /\ element = <<"X", "1", "1", "Y", "1", "1", "_", "I", "2">>
    /\ translated = Label(<<"W", "_", "X", "1", "0", "_", "Y", "1", "1", "_", "I", "3">>)

\* the six sample tokens of the specification
Sample1 == <<"I", "O", "_", "X", "0", "Y", "0", "Z", "0", "_", "O">>
Sample2 == <<"I", "O", "_", "X", "0", "Y", "2", "Z", "1", "_", "O">>
Sample3 == <<"I", "O", "_", "X", "1", "2", "Y", "5", "Z", "0", "_", "I">>
Sample4 == <<"X", "1", "1", "Y", "5", "_", "Q">>
Sample5 == <<"X", "2", "Y", "2", "_", "I", "1">>
Sample6 == <<"X", "1", "Y", "0", "_", "I", "0">>

\* C5 as stated: the six sample tokens translate to IO_I0, IO_I5, IO_O10,
\* X10_Y5_Q, X1_Y2_I2 and X0_Y0_I1, character for character.
C5_SamplesAsStated ==
    TranslateDone =>
        /\ element = Sample1 => translated = Label(<<"I", "O", "_", "I", "0">>)
        /\ element = Sample2 => translated = Label(<<"I", "O", "_", "I", "5">>)
        /\ element = Sample3 => translated = Label(<<"I", "O", "_", "O", "1", "0">>)
        /\ element = Sample4 => translated = Label(<<"X", "1", "0", "_", "Y", "5", "_", "Q">>)
        /\ element = Sample5 => translated = Label(<<"X", "1", "_", "Y", "2", "_", "I", "2">>)
        /\ element = Sample6 => translated = Label(<<"X", "0", "_", "Y", "0", "_", "I", "1">>)

\* C5, amended: the six sample tokens translate to W_IO_I0, W_IO_I5,
\* W_IO_O10, W_X10_Y5_Q, W_X1_Y2_I2 and W_X0_Y0_I1, character for character:
\* every label carries the prefix W_.
C5_SamplesWithPrefix ==
    TranslateDone =>
        /\ element = Sample1 => translated = Label(<<"W", "_", "I", "O", "_", "I", "0">>)
        /\ element = Sample2 => translated = Label(<<"W", "_", "I", "O", "_", "I", "5">>)
        /\ element = Sample3 => translated = Label(<<"W", "_", "I", "O", "_", "O", "1", "0">>)
        /\ element = Sample4
             => translated = Label(<<"W", "_", "X", "1", "0", "_", "Y", "5", "_", "Q">>)
        /\ element = Sample5
             => translated = Label(<<"W", "_", "X", "1", "_", "Y", "2", "_", "I", "2">>)
        /\ element = Sample6
             => translated = Label(<<"W", "_", "X", "0", "_", "Y", "0", "_", "I", "1">>)

C5_Witness ==
    /\ TranslateDone
    /\ element = Sample3
    /\ translated.kind = "label"

\* C6: a blank token, an internal wire or clock name, a name containing
\* _FROM_ or _TO_ and a number translate to skip, whatever coordinates they
\* carry and also when they begin or end like a pin name.
C6_SkipSet ==
    TranslateDone => (element \in SkipTokens => translated = Skip)

C6_Witness ==
    /\ TranslateDone
    /\ element = IoToken(0, 0, 0, <<"O">>) \o ToInfix \o GlobalClkToken
    /\ translated = Skip

\* the I/O-pin tokens that name no pin of the fabric
BadIoTokens ==
    { IoToken(q[1], q[2], q[3], q[4]) :
        q \in { r \in Coords \X Coords \X (0 .. MaxZ) \X IoDirs :
                  \/ r[2] \notin 0 .. 7
                  \/ r[3] \notin 0 .. (BITS_PER_IO_CELL - 1)
                  \/ r[1] \notin {0, GRID_X}
                  \/ (r[1] = 0 /\ r[4] = <<"I">>)
                  \/ (r[1] = GRID_X /\ r[4] = <<"O">>) } }

\* the same, also with surrounding whitespace
BadIoElements == WithPadding(BadIoTokens)

\* C7: an I/O-pin token raises an error when y is outside 0..7, z outside
\* 0..BITS_PER_IO_CELL-1, x neither 0 nor GRID_X, or the direction is not
\* the one of its column.
C7_IoPinErrors ==
    TranslateDone =>
        (element \in BadIoElements => translated.kind = "error")

C7_Witness ==
    /\ TranslateDone
    /\ element = IoToken(GRID_X, 0, 0, <<"O">>)
    /\ translated.kind = "error"
    /\ translated.why = "io_output_direction"

\* the tokens of the domain that translate to a label
ValidPinTokens == WithPadding(ValidIoTokens \cup ValidLutTokens \cup ZeroLedTokens)

\* the tokens of the domain that are neither skipped nor a valid pin
ErrorTokens == TokenDomain \ (SkipTokens \cup ValidPinTokens)

\* C8: a token that is neither in the skip set nor a valid I/O or logic pin
\* raises an error and is never skipped.
C8_EverythingElseErrors ==
    TranslateDone =>
        (element \in ErrorTokens => translated.kind = "error")

C8_Witness ==
    /\ TranslateDone
    /\ element = LutToken(1, 1, InputSuffix(LUT_K))
    /\ translated = TranslationError("unrecognized", element)

(***************************************************************************)
(* Properties of parse_routing and of the net processor                    *)
(***************************************************************************)
\* the ';'-separated fields of a trace, by the positions of its separators
FieldsOf(str) ==
    LET seps == {i \in 1 .. Len(str) : str[i] = ";"}
        n == Cardinality(seps) + 1
        SepAt(k) == IF k = 0 THEN 0
                    ELSE IF k = n THEN Len(str) + 1
                    ELSE CHOOSE i \in seps : Cardinality({j \in seps : j < i}) = k - 1
    IN  [k \in 1 .. n |-> SubSeq(str, SepAt(k - 1) + 1, SepAt(k) - 1)]

\* what translate makes of each field of a trace
FieldOutcomes(str) ==
    LET F == FieldsOf(str) IN [k \in 1 .. Len(F) |-> Translate(F[k])]

HasBadField(str) ==
    \E k \in 1 .. Len(FieldOutcomes(str)) : FieldOutcomes(str)[k].kind = "error"

\* whether translate rejects a field, for every trace a net may have
TraceHasBadField == [r \in RoutingPool |-> HasBadField(r)]

\* the outcome of the first field that translate rejects
FirstBadField(str) ==
    LET T == FieldOutcomes(str)
        k == CHOOSE k \in 1 .. Len(T) :
                 T[k].kind = "error" /\ \A m \in 1 .. (k - 1) : T[m].kind # "error"
    IN  T[k]

\* C2: for a trace none of whose tokens raises, parse_routing returns the
\* labels of its tokens without duplicates, in the order of their first
\* occurrence; skipped tokens contribute nothing.
C2_FirstOccurrenceOrder ==
    pc = "parse_done" =>
        LET T == FieldOutcomes(routing_str)
            L == parsed.labels
            First(l) == CHOOSE k \in 1 .. Len(T) :
                            T[k] = Label(l) /\ \A m \in 1 .. (k - 1) : T[m] # Label(l)
        IN  (~HasBadField(routing_str)) =>
                /\ parsed.kind = "returned"
                /\ \A i, j \in 1 .. Len(L) : i # j => L[i] # L[j]
                /\ SeqToSet(L) = {T[k].label : k \in {m \in 1 .. Len(T) : T[m].kind = "label"}}
                /\ \A i, j \in 1 .. Len(L) : i < j => First(L[i]) < First(L[j])

C2_Witness ==
    /\ pc = "parse_done"
    /\ routing_str = Join(<<LutToken(1, 1, <<"Q">>), LutToken(2, 2, InputSuffix(1)),
                            <<"X", "0", "1", "Y", "1", "_", "Q">>>>)
    /\ parsed = Returned(<<LutLabel(0, 1, <<"Q">>), LutLabel(1, 2, InputSuffix(2))>>)

\* a net the loop of process_netnames parses: not the clock net, with a trace
Routed(net) == net.name # CLK /\ net.has_attributes /\ net.has_routing

\* C9: when a token of the trace of a net makes translate raise,
\* parse_routing raises the error of the first such token and returns no
\* labels, and process_netnames fails with that error: main gets no records
\* and writes nothing.
C9_TokenErrorIsFatal ==
    \A k \in 1 .. net_i :
        (Routed(netnames[k]) /\ TraceHasBadField[netnames[k].routing]) =>
            /\ k = net_i
            /\ routing_str = netnames[k].routing
            /\ parsed = Raised(FirstBadField(routing_str))
            /\ pc = "failed"
            /\ error = parsed.error
            /\ nets = <<>>
            /\ ~schematic.written

C9_Witness ==
    /\ pc = "failed"
    /\ net_i = 2
    /\ Len(netnames[1].routing) > 0
    /\ parsed.kind = "raised"
    /\ parsed.labels = <<>>
    /\ error = TranslationError("unrecognized", BadToken)
    /\ FieldOutcomes(routing_str)[1].kind = "label"

\* a net of the netlist, other than the clock net, without the attributes
\* section or without the ROUTING attribute
Malformed(net) == net.name # CLK /\ (~net.has_attributes \/ ~net.has_routing)

\* C10: a netlist with a malformed net never gets to the ground record or to
\* the save and main gets no records; when the loop of process_netnames
\* comes to the malformed net it raises the structural error naming it, also
\* after nets that were translated.
C10_StructuralErrorAborts ==
    /\ (\E k \in 1 .. Len(netnames) : Malformed(netnames[k])) =>
          /\ pc \in {"load_pnrtop", "process_netnames", "failed"}
          /\ nets = <<>>
          /\ unused_inputs = {}
          /\ ~schematic.written
    /\ \A k \in 1 .. net_i :
          Malformed(netnames[k]) =>
              /\ pc = "failed"
              /\ k = net_i
              /\ acc = <<>>
              /\ error = TranslationError(IF netnames[k].has_attributes
                                          THEN "missing_routing"
                                          ELSE "missing_attributes",
                                          netnames[k].name)

C10_Witness ==
    /\ pc = "failed"
    /\ net_i = 2
    /\ error = TranslationError("missing_routing", NetName(2))
    /\ parsed.kind = "returned"
    /\ Len(parsed.labels) > 0
    /\ nets = <<>>

\* the label sets of the records of main's list
LabelSets == [i \in 1 .. Len(nets) |-> SeqToSet(nets[i].labels)]

GroundAppended == pc \in {"generate", "done"}

\* C1 as stated: the label sets of the net records and of the ground record
\* are pairwise disjoint and their union is the full input-label domain.
C1_CompletenessAsStated ==
    GroundAppended =>
        /\ UNION {LabelSets[i] : i \in 1 .. Len(nets)} = AllInputNetsSet
        /\ \A i, j \in 1 .. Len(nets) :
              i # j => LabelSets[i] \cap LabelSets[j] = {}

\* C1, amended: the union of the label sets of the net records and of the
\* ground record contains the full input-label domain, the ground record is
\* disjoint from every net record, and the only label of the ground record
\* outside the domain is the reserved ground label.
C1_CompletenessAmended ==
    GroundAppended =>
        LET n == Len(nets)
            L == LabelSets
            G == L[n]
            U == UNION {L[i] : i \in 1 .. (n - 1)}
        IN  /\ AllInputNetsSet \subseteq (U \cup G)
            /\ \A i \in 1 .. (n - 1) : L[i] \cap G = {}
            /\ G \ AllInputNetsSet = {W_GND}

C1_Witness ==
    /\ pc = "done"
    /\ Len(nets) = 3
    /\ LabelSets[1] \cap LabelSets[2] # {}
    /\ LabelSets[1] \ AllInputNetsSet # {}
    /\ Cardinality(LabelSets[3]) = Cardinality(AllInputNetsSet)

\* a trace of white space only
Blank(str) == \A i \in 1 .. Len(str) : IsSpaceChar(str[i])

\* the labels of the fields of a trace
FieldLabels(str) ==
    LET T == FieldOutcomes(str)
    IN  {T[k].label : k \in {m \in 1 .. Len(T) : T[m].kind = "label"}}

\* the labels of every trace a net may have
TraceLabels == [r \in RoutingPool |-> FieldLabels(r)]

\* a net that is to get a record
Kept(net) == net.name # CLK /\ ~Blank(net.routing) /\ TraceLabels[net.routing] # {}

\* a netlist none of whose nets makes process_netnames raise
Clean(netlist) ==
    \A k \in 1 .. Len(netlist) :
        /\ ~Malformed(netlist[k])
        /\ ~(Routed(netlist[k]) /\ TraceHasBadField[netlist[k].routing])

\* the position in the netlist of the r-th net that is to get a record
KeptAt(r) ==
    CHOOSE k \in 1 .. Len(netnames) :
        /\ Kept(netnames[k])
        /\ Cardinality({j \in 1 .. (k - 1) : Kept(netnames[j])}) = r - 1

\* C11: for a netlist none of whose nets raises, process_netnames does not
\* fail and its records are, in the iteration order of the netlist, one per
\* net that is not clk, whose trace is not blank and whose trace has a label:
\* the record has the name of the net and the labels of its trace, at least
\* one; this holds of the nets visited so far and of the list returned.
C11_OneRecordPerNet ==
    (pnrtop = "ok" /\ Clean(netnames)) =>
        /\ pc # "failed"
        /\ Len(acc) = Cardinality({k \in 1 .. net_i : Kept(netnames[k])})
        /\ \A r \in 1 .. Len(acc) :
              /\ acc[r].name = netnames[KeptAt(r)].name
              /\ SeqToSet(acc[r].labels) = TraceLabels[netnames[KeptAt(r)].routing]
              /\ Len(acc[r].labels) > 0
        /\ pc \in {"load_schematic", "ground"} => nets = acc

C11_Witness ==
    /\ pc = "load_schematic"
    /\ Len(netnames) = 2
    /\ netnames[1].routing = Join(<<GlobalWireToken(11), <<"1">>>>)
    /\ Routed(netnames[1])
    /\ Len(nets) = 1
    /\ nets[1].name = NetName(2)
    /\ Len(nets[1].labels) = 2

\* the labels the ground record has
GroundLabels == SeqToSet(nets[Len(nets)].labels)

\* C12: the iteration of process_netnames that meets the net clk changes
\* nothing but the position of the loop, whatever the net has or lacks: no
\* error, no record; no record ever has the name clk, and a label that only
\* the trace of clk has is still in the ground record.
C12_ClkExcludedFirst ==
    /\ [][(pc = "process_netnames" /\ net_i < Len(netnames)
             /\ netnames[net_i + 1].name = CLK)
           => (/\ pc' = "process_netnames"
               /\ net_i' = net_i + 1
               /\ UNCHANGED <<acc, nets, error, routing_str, parsed>>)]_vars
    /\ [](\A i \in 1 .. Len(acc) : acc[i].name # CLK)
    /\ [](\A i \in 1 .. Len(nets) : nets[i].name # CLK)
    /\ [](GroundAppended =>
             (AllInputNetsSet
                \ UNION {TraceLabels[netnames[k].routing] :
                           k \in {j \in 1 .. Len(netnames) : Routed(netnames[j])}})
             \subseteq GroundLabels)

C12_Witness ==
    /\ pc = "done"
    /\ Len(netnames) = 2
    /\ netnames[1].name = CLK
    /\ netnames[1].routing =
          Join(<<LutToken(2, 2, InputSuffix(1)), <<>>, <<"1">>, LutToken(1, 1, <<"Q">>)>>)
    /\ Len(nets) = 2
    /\ nets[1].name = NetName(2)
    /\ LutLabel(1, 2, InputSuffix(2)) \in GroundLabels

\* C13: main appends one record after the records of process_netnames; it
\* is the last, it has the reserved name, which no other record has, and
\* its labels are, each once, the labels of the input domain that no net
\* record has and the reserved ground label, whatever the order list() gave.
C13_GroundRecord ==
    GroundAppended =>
        LET n == Len(nets)
            L == nets[n].labels
            U == UNION {SeqToSet(nets[i].labels) : i \in 1 .. (n - 1)}
        IN  /\ n = Len(acc) + 1
            /\ SubSeq(nets, 1, n - 1) = acc
            /\ nets[n].name = SPECIAL_GND_NET
            /\ \A i \in 1 .. (n - 1) : nets[i].name # SPECIAL_GND_NET
            /\ Cardinality(SeqToSet(L)) = Len(L)
            /\ SeqToSet(L) = (AllInputNetsSet \ U) \cup {W_GND}
            /\ unused_inputs = AllInputNetsSet \ U

\* the order list() gave is the reverse of the order of the domain
C13_Witness ==
    /\ pc = "done"
    /\ Len(nets) = 2
    /\ LutLabel(1, 2, InputSuffix(2)) \in SeqToSet(nets[1].labels)
    /\ nets[2].labels[1] = InputNetAt(Len(ListAllInputNets))
    /\ Len(nets[2].labels) = Len(ListAllInputNets)

(***************************************************************************)
(* Properties of the generated fabric                                      *)
(***************************************************************************)
\* the positions in ctx of the calls of one kind
WireCalls == {i \in 1 .. Len(ctx) : ctx[i].op = "addWire"}

BelCalls == {i \in 1 .. Len(ctx) : ctx[i].op = "addBel"}

PipCalls == {i \in 1 .. Len(ctx) : ctx[i].op = "addPip"}

BelPinCalls == {i \in 1 .. Len(ctx) : ctx[i].op \in {"addBelInput", "addBelOutput"}}

WireNames == {ctx[i].name : i \in WireCalls}

FabricDone == pc = "fabric_done"

\* the logic cells and the z-slots of the I/O cells of the setting
LogicCells == (1 .. (grid.X - 1)) \X (0 .. (grid.Y - 1))

IoSlots == {0} \X (0 .. (grid.IO_ROWS - 1)) \X (0 .. (grid.bits_per_io_cell - 1))

\* the wires the script names in the setting of the repository, by what they
\* are: the clock, the ports of the logic cells, the ports of the z-slots,
\* the global wires, and the local wires of the pairs at distance 1 to 5
RepositoryWires ==
    LET cells == (1 .. (X - 1)) \X (0 .. (Y - 1))
        ports == {<<"C", "L", "K">>, <<"F">>, <<"Q">>}
                     \cup {InputSuffix(k) : k \in 0 .. (K - 1)}
        Near(c, d) == LET dist == Abs(c[1] - d[1]) + Abs(c[2] - d[2])
                      IN  dist >= 1 /\ dist <= 5
    IN  { <<"clock">> }
        \cup { <<"cell", c, p>> : c \in cells, p \in ports }
        \cup { <<"slot", q>> :
                 q \in (0 .. (IO_ROWS - 1)) \X (0 .. (bits_per_io_cell - 1))
                       \X {<<"I">>, <<"E", "N">>, <<"O">>} }
        \cup { <<"global", i>> : i \in 0 .. (GLOBAL_WIRE_COUNT - 1) }
        \cup { <<"local", q>> :
                 q \in {r \in cells \X cells \X (0 .. 3) : Near(r[1], r[2])} }

RepositoryWireName(w) ==
    CASE w[1] = "clock" -> GlobalClkToken
      [] w[1] = "cell" -> LutToken(w[2][1], w[2][2], w[3])
      [] w[1] = "slot" -> IoToken(0, w[2][1], w[2][2], w[2][3])
      [] w[1] = "global" -> GlobalWireToken(w[2])
      [] w[1] = "local" -> LocalWireToken(w[2][1][1], w[2][1][2], w[2][2][1],
                                          w[2][2][2], w[2][3])

\* with the coordinates of two digits of the repository, too, the format of
\* the names keeps different wires apart
RepositoryNamesDistinct ==
    Cardinality({RepositoryWireName(w) : w \in RepositoryWires})
        = Cardinality(RepositoryWires)

\* C14: at every moment of the generation and in the finished fabric, no
\* two wires have the same name, no two Bels have the same name and no two
\* PIPs have the same name, for every setting of X, Y, K, GLOBAL_WIRE_COUNT,
\* I/O rows and bits per I/O cell; the wire names of the setting of the
\* repository are distinct as well.
C14_NamesDistinct ==
    /\ RepositoryNamesDistinct
    /\ Cardinality(WireNames) = Cardinality(WireCalls)
    /\ Cardinality({ctx[i].name : i \in BelCalls}) = Cardinality(BelCalls)
    /\ Cardinality({ctx[i].name : i \in PipCalls}) = Cardinality(PipCalls)

C14_Witness ==
    /\ FabricDone
    /\ grid = Grid(2, 2, 1, 1, 1, 1)
    /\ Cardinality(WireCalls) = 17
    /\ Cardinality(BelCalls) = 3
    /\ Cardinality(PipCalls) = 35

\* the wires a call refers to
Endpoints(call) ==
    CASE call.op = "addPip" -> {call.srcWire, call.dstWire}
      [] call.op \in {"addBelInput", "addBelOutput"} -> {call.wire}
      [] OTHER -> {}

\* C15: every call that a builder makes refers only to wires that an earlier
\* call has created: the srcWire and the dstWire of a PIP and the wire of a
\* Bel input or output; so in the finished fabric, too, every endpoint is a
\* wire of the fabric.
C15_NoDanglingEndpoints ==
    /\ [](UNION {Endpoints(ctx[i]) : i \in PipCalls \cup BelPinCalls}
            \subseteq WireNames)
    /\ [][UNION { Endpoints(ctx'[i])
                    \ {ctx'[j].name : j \in {k \in (Len(ctx) + 1) .. (i - 1) :
                                                ctx'[k].op = "addWire"}} :
                  i \in (Len(ctx) + 1) .. Len(ctx') }
            \subseteq {ctx'[j].name :
                         j \in {k \in 1 .. Len(ctx) :
                                  k <= Len(ctx') /\ ctx'[k].op = "addWire"}}]_vars

C15_Witness ==
    /\ FabricDone
    /\ grid = Grid(2, 1, 1, 2, 1, 1)
    /\ Cardinality(PipCalls) = 12
    /\ Cardinality(BelPinCalls) = 7
    /\ \A i \in PipCalls : {ctx[i].srcWire, ctx[i].dstWire} \subseteq WireNames

Manhattan(c, d) == Abs(c[1] - d[1]) + Abs(c[2] - d[2])

\* c is before d in the order of the logic cells: by x, then by y
Earlier(c, d) == c[1] < d[1] \/ (c[1] = d[1] /\ c[2] < d[2])

\* the local wires the fabric is to have: the pair of cells, the earlier
\* cell first, and the index
ExpectedLocalWires ==
    { q \in LogicCells \X LogicCells \X (0 .. 3) :
        /\ Earlier(q[1], q[2])
        /\ q[3] < distance_to_interconnect_count(Manhattan(q[1], q[2])) }

ExpectedLocalName(q) == LocalWireToken(q[1][1], q[1][2], q[2][1], q[2][2], q[3])

LocalWireCalls == {i \in WireCalls : ctx[i].type = "LOCAL"}

\* the PIPs that start or end at wire w
PipsOn(w) == {i \in PipCalls : ctx[i].srcWire = w \/ ctx[i].dstWire = w}

Wiring(calls) == {<<ctx[i].srcWire, ctx[i].dstWire>> : i \in calls}

\* what joins wire w and logic cell c: F and Q drive w, w drives every input
CellWiring(w, c) ==
    { <<LutToken(c[1], c[2], <<"F">>), w>>, <<LutToken(c[1], c[2], <<"Q">>), w>> }
    \cup { <<w, LutToken(c[1], c[2], InputSuffix(k))>> : k \in 0 .. (grid.K - 1) }

\* C17: the finished fabric has, for every pair of different logic cells at
\* distance d, taken once with the earlier cell first, the local wires of
\* index 0 to count(d)-1 and no other local wire; every local wire has
\* 2*(2+K) PIPs: for each of its two cells one from F, one from Q and one to
\* each of the K inputs; no other PIP is a local interconnect, so none
\* involves an I/O cell, and make_io_to_lut_interconnects makes no call.
C17_LocalInterconnects ==
    FabricDone =>
        /\ Cardinality(LocalWireCalls) = Cardinality(ExpectedLocalWires)
        /\ {ctx[i].name : i \in LocalWireCalls}
              = {ExpectedLocalName(q) : q \in ExpectedLocalWires}
        /\ \A q \in ExpectedLocalWires :
              LET w == ExpectedLocalName(q)
                  on == PipsOn(w)
              IN  /\ Cardinality(on) = 2 * (2 + grid.K)
                  /\ Wiring(on) = CellWiring(w, q[1]) \cup CellWiring(w, q[2])
        /\ Cardinality({i \in PipCalls : ctx[i].type = "LOCAL_INTERCONNECT"})
              = 2 * (2 + grid.K) * Cardinality(ExpectedLocalWires)
        /\ \A s \in IoSlots, c \in LogicCells :
              make_io_to_lut_interconnects(grid, s[1], s[2], c[1], c[2]) = <<>>

C17_Witness ==
    /\ FabricDone
    /\ grid = Grid(2, 7, 1, 0, 0, 0)
    /\ Cardinality(LocalWireCalls) = 61
    /\ Cardinality(PipsOn(LocalWireToken(1, 1, 1, 6, 1))) = 6
    /\ PipsOn(LocalWireToken(1, 6, 1, 1, 0)) = {}

MaxDistance == 20

\* the cells a local wire joins: where the wire is and where its PIPs are
JoinedBy(i) ==
    { <<ctx[i].x, ctx[i].y>> } \cup { <<ctx[j].loc[1], ctx[j].loc[2]>> : j \in PipsOn(ctx[i].name) }

\* C18: distance_to_interconnect_count gives 0 at distance 0, 4 at 1, 3 at 2
\* and 3, 2 at 4 and 5, and 0 at every distance above 5; so in the finished
\* fabric no local wire joins two cells more than 5 apart, and none joins a
\* cell with itself.
C18_DistancePolicy ==
    /\ distance_to_interconnect_count(0) = 0
    /\ distance_to_interconnect_count(1) = 4
    /\ distance_to_interconnect_count(2) = 3
    /\ distance_to_interconnect_count(3) = 3
    /\ distance_to_interconnect_count(4) = 2
    /\ distance_to_interconnect_count(5) = 2
    /\ \A d \in 6 .. MaxDistance : distance_to_interconnect_count(d) = 0
    /\ FabricDone =>
          \A i \in LocalWireCalls :
              /\ Cardinality(JoinedBy(i)) = 2
              /\ \A c, d \in JoinedBy(i) : Manhattan(c, d) <= 5

\* a column of seven cells: the ends are 6 apart, and cells 5 apart are joined
C18_Witness ==
    /\ FabricDone
    /\ grid = Grid(2, 7, 1, 0, 0, 0)
    /\ \E i \in LocalWireCalls : JoinedBy(i) = {<<1, 0>>, <<1, 5>>}
    /\ ~\E i \in LocalWireCalls : JoinedBy(i) = {<<1, 0>>, <<1, 6>>}

SlotWiring(w, s) ==
    { <<IoToken(s[1], s[2], s[3], <<"O">>), w>>, <<w, IoToken(s[1], s[2], s[3], <<"I">>)>> }

\* C19: in the finished fabric there is one wire GLOBAL_WIRE_i for every i
\* below GLOBAL_WIRE_COUNT, and its PIPs are: for every z-slot of every I/O
\* cell one from the output of the slot and one to the input of the slot,
\* and for every logic cell one from Q, one from F and one to each of the K
\* inputs; each of them once and no other, 2 * slots + (2 + K) * cells in
\* all; no other wire is a global routing wire.
C19_GlobalWires ==
    FabricDone =>
        /\ \A i \in 0 .. (grid.GLOBAL_WIRE_COUNT - 1) :
              LET w == GlobalWireToken(i)
                  on == PipsOn(w)
              IN  /\ Cardinality({j \in WireCalls : ctx[j].name = w}) = 1
                  /\ Wiring(on) = UNION {SlotWiring(w, s) : s \in IoSlots}
                                     \cup UNION {CellWiring(w, c) : c \in LogicCells}
                  /\ Cardinality(on) = 2 * Cardinality(IoSlots)
                                          + (2 + grid.K) * Cardinality(LogicCells)
        /\ {ctx[j].name : j \in {k \in WireCalls : ctx[k].type = "GLOBAL"}}
              = {GlobalClkToken}
                   \cup {GlobalWireToken(i) : i \in 0 .. (grid.GLOBAL_WIRE_COUNT - 1)}
        /\ Cardinality({j \in PipCalls : ctx[j].type \in {"GLOBAL_IO", "GLOBAL_LUT"}})
              = grid.GLOBAL_WIRE_COUNT
                  * (2 * Cardinality(IoSlots) + (2 + grid.K) * Cardinality(LogicCells))

C19_Witness ==
    /\ FabricDone
    /\ grid = Grid(2, 1, 1, 2, 1, 1)
    /\ Wiring(PipsOn(GlobalWireToken(1)))
          = { <<IoToken(0, 0, 0, <<"O">>), GlobalWireToken(1)>>,
              <<GlobalWireToken(1), IoToken(0, 0, 0, <<"I">>)>>,
              <<LutToken(1, 0, <<"Q">>), GlobalWireToken(1)>>,
              <<LutToken(1, 0, <<"F">>), GlobalWireToken(1)>>,
              <<GlobalWireToken(1), LutToken(1, 0, <<"I", "0">>)>> }

\* the PIPs that end at wire w
PipsInto(w) == {i \in PipCalls : ctx[i].dstWire = w}

\* C20: the finished fabric has one wire GLOBAL_CLK; the clock port of every
\* logic cell is the destination of one PIP, whose source is GLOBAL_CLK;
\* the PIPs into GLOBAL_CLK are one for every z-slot of every I/O cell, from
\* the output of the slot; so no output of a logic cell, no global wire and
\* no local wire drives GLOBAL_CLK or a clock port, and GLOBAL_CLK drives
\* nothing but clock ports.
C20_ClockDistribution ==
    FabricDone =>
        /\ Cardinality({i \in WireCalls : ctx[i].name = GlobalClkToken}) = 1
        /\ \A c \in LogicCells :
              LET into == PipsInto(CellClkToken(c[1], c[2]))
              IN  /\ Cardinality(into) = 1
                  /\ \A i \in into : ctx[i].srcWire = GlobalClkToken
        /\ LET into == PipsInto(GlobalClkToken)
           IN  /\ Cardinality(into) = Cardinality(IoSlots)
               /\ {ctx[i].srcWire : i \in into}
                     = {IoToken(s[1], s[2], s[3], <<"O">>) : s \in IoSlots}
        /\ {ctx[i].dstWire : i \in {j \in PipCalls : ctx[j].srcWire = GlobalClkToken}}
              = {CellClkToken(c[1], c[2]) : c \in LogicCells}
        /\ \A i \in WireCalls :
              ctx[i].type = "BEL_CLK" => ctx[i].name \in {CellClkToken(c[1], c[2]) : c \in LogicCells}

C20_Witness ==
    /\ FabricDone
    /\ grid = Grid(2, 2, 1, 0, 2, 1)
    /\ Cardinality(PipsInto(GlobalClkToken)) = 2
    /\ Cardinality(PipsInto(CellClkToken(1, 1))) = 1
    /\ LocalWireCalls # {}

(***************************************************************************)
(* The translator against the names of the generator                       *)
(***************************************************************************)
\* the names of the wires of the repository's own setting
RepositoryNames == {RepositoryWireName(w) : w \in RepositoryWires}

\* the names of the PIPs of the fabric
PipNames == {ctx[i].name : i \in PipCalls}

\* the names of the global wires, the local wires and the clocks
InternalWireNames ==
    {ctx[i].name : i \in {j \in WireCalls :
                            ctx[j].type \in {"GLOBAL", "LOCAL", "BEL_CLK"}}}

\* C21: the grammar of the translator is the inverse of the names of the
\* generator: in the finished fabric every wire name and every PIP name is
\* accepted by translate (skipped or given a label, never an error), every
\* PIP name and every name of a global wire, a local wire or a clock is
\* skipped, and every I/O pin and logic pin that translate gives a label is
\* the name of a wire the generator creates in the repository's setting.
C21_GrammarInverse ==
    FabricDone =>
        /\ \A n \in WireNames \cup PipNames : Translate(n).kind # "error"
        /\ \A n \in PipNames \cup InternalWireNames : Translate(n) = Skip
        /\ ValidIoTokens \cup ValidLutTokens \subseteq RepositoryNames

\* the parts of C21 that hold: PIPs and internal wires are skipped, the wires
\* of the logic cells get a label, and the I/O wires that get a label are the
\* O wires of the slots z < BITS_PER_IO_CELL only
C21_SkippedAndLogicPins ==
    FabricDone =>
        /\ \A n \in PipNames \cup InternalWireNames : Translate(n) = Skip
        /\ \A i \in WireCalls :
             LET t == Translate(ctx[i].name)
             IN  CASE ctx[i].x >= 1 /\ ctx[i].type \in {"BEL_F", "BEL_Q", "BEL_I"} ->
                          t.kind = "label"
                   [] ctx[i].x = 0 /\ ctx[i].type = "BEL_I" -> t.kind = "error"
                   [] ctx[i].x = 0 /\ ctx[i].type = "BEL_Q" -> t.kind = "label"
                   [] OTHER -> t = Skip
        /\ ValidLutTokens \subseteq RepositoryNames
        /\ ValidIoTokens \cap RepositoryNames
               = {IoToken(0, y, z, <<"O">>) :
                    y \in 0 .. 7, z \in 0 .. (BITS_PER_IO_CELL - 1)}

C21_Witness ==
    /\ FabricDone
    /\ IoToken(0, 0, 0, <<"I">>) \in WireNames
    /\ Translate(IoToken(0, 0, 0, <<"I">>))
           = TranslationError("io_input_direction", IoToken(0, 0, 0, <<"I">>))
    /\ Translate(IoToken(0, 0, 0, <<"E", "N">>)).why = "unrecognized"
    /\ LutToken(1, 0, <<"Q">>) \in WireNames

\* the pins translate gives a label, written the way the generator writes
\* names (decimal numbers without leading zeros), and the outcome of each
CanonicalPinTokens == ValidIoTokens \cup ValidLutTokens

OutcomeOf == [t \in CanonicalPinTokens \cup ZeroLedTokens |-> Translate(t)]

\* C22 as stated: no two distinct names that translate to a label translate
\* to the same label.
C22_InjectiveOnAllNames ==
    (TranslateDone /\ translated.kind = "label") =>
        \A t \in (CanonicalPinTokens \cup ZeroLedTokens) \ {Strip(element)} :
            OutcomeOf[t] # translated

\* C22: no two distinct pins written without leading zeros translate to the
\* same label: the index y*BITS_PER_IO_CELL + z differs for different (y, z)
\* of the valid domain, the labels of the input column, of the output column
\* and of the logic pins never coincide; a name with a leading zero in a
\* number or with surrounding blanks translates to the label of the pin
\* written without them.
C22_InjectiveOnCanonicalNames ==
    /\ \A p \in ((0 .. 7) \X (0 .. (BITS_PER_IO_CELL - 1))) :
         \A q \in ((0 .. 7) \X (0 .. (BITS_PER_IO_CELL - 1))) :
           p # q => p[1] * BITS_PER_IO_CELL + p[2] # q[1] * BITS_PER_IO_CELL + q[2]
    /\ (TranslateDone /\ translated.kind = "label") =>
         Cardinality({t \in CanonicalPinTokens : OutcomeOf[t] = translated}) = 1
    /\ (TranslateDone /\ Strip(element) \in CanonicalPinTokens) =>
         /\ translated = OutcomeOf[Strip(element)]
         /\ translated.kind = "label"

C22_Witness ==
    /\ TranslateDone
    /\ element = IoToken(0, 1, 0, <<"O">>)
    /\ translated = Label(W_IO_I \o <<"2">>)
    /\ OutcomeOf[IoToken(GRID_X, 1, 0, <<"I">>)] = Label(W_IO_O \o <<"2">>)
    /\ OutcomeOf[<<"X", "0", "1", "Y", "1", "_", "Q">>]
           = OutcomeOf[LutToken(1, 1, <<"Q">>)]

\* a setting without a logic cell to build: no column, no row, or no input
InvalidGrid(g) == g.X <= 0 \/ g.Y <= 0 \/ g.K <= 0

\* C23: for an invalid setting (width or height not positive, K = 0) the
\* generator stops with a parameter error before it creates any wire, Bel or
\* PIP: it never leaves its first line and the fabric stays empty.
C23_FailsFast ==
    InvalidGrid(grid) => (ctx = <<>> /\ pc = "make_global_signal")

\* what the script does instead: it runs to its end and leaves a fabric with
\* the clock wire, the I/O cells and the global wires, and without a logic cell
C23_Witness ==
    /\ FabricDone
    /\ grid = Grid(0, 0, 0, 1, 1, 1)
    /\ Cardinality(WireCalls) = 5
    /\ Cardinality(BelCalls) = 1
    /\ Cardinality(PipCalls) = 3
    /\ ctx[1] = AddWire(GlobalClkToken, "GLOBAL", 0, 0)

\* the pins a Bel was given, and the wires created at a coordinate
PinsOf(bel) ==
    {<<ctx[i].op, ctx[i].name, ctx[i].wire>> :
       i \in {j \in BelPinCalls : ctx[j].bel = bel}}

WiresAt(x, y, types) ==
    {i \in WireCalls : ctx[i].x = x /\ ctx[i].y = y /\ ctx[i].type \in types}

\* C24: in the finished fabric there is exactly one logic cell for every
\* (x, y) with 1 <= x <= X-1 and 0 <= y <= Y-1 and none elsewhere (none in
\* column 0, none at x >= X); each owns one clock wire, K input wires, one F
\* and one Q wire. The I/O cells are in column 0 on the reserved rows only,
\* with one Bel per z-slot, each owning one I, one EN and one O wire. No
\* coordinate hosts both a logic cell and an I/O cell.
C24_CellsAndPorts ==
    FabricDone =>
        LET slices == {i \in BelCalls : ctx[i].type = "GENERIC_SLICE"}
            iobs == {i \in BelCalls : ctx[i].type = "GENERIC_IOB"}
        IN  /\ slices \cup iobs = BelCalls
            /\ {ctx[i].loc : i \in slices} = {<<c[1], c[2], 0>> : c \in LogicCells}
            /\ Cardinality(slices) = Cardinality(LogicCells)
            /\ {ctx[i].loc : i \in iobs} = IoSlots
            /\ Cardinality(iobs) = Cardinality(IoSlots)
            /\ \A i \in slices :
                 LET x == ctx[i].loc[1]
                     y == ctx[i].loc[2]
                     own == WiresAt(x, y, {"BEL_CLK", "BEL_I", "BEL_F", "BEL_Q"})
                 IN  /\ x >= 1 /\ x <= grid.X - 1 /\ y >= 0 /\ y <= grid.Y - 1
                     /\ PinsOf(ctx[i].name)
                          = { <<"addBelInput", <<"C", "L", "K">>, CellClkToken(x, y)>>,
                              <<"addBelOutput", <<"F">>, LutToken(x, y, <<"F">>)>>,
                              <<"addBelOutput", <<"Q">>, LutToken(x, y, <<"Q">>)>> }
                            \cup { <<"addBelInput",
                                     <<"I", "[">> \o FormatInt(k) \o <<"]">>,
                                     LutToken(x, y, InputSuffix(k))>> :
                                     k \in 0 .. (grid.K - 1) }
                     /\ {ctx[w].name : w \in own}
                          = {p[3] : p \in PinsOf(ctx[i].name)}
                     /\ Cardinality(own) = grid.K + 3
                     /\ Cardinality(WiresAt(x, y, {"BEL_CLK"})) = 1
                     /\ Cardinality(WiresAt(x, y, {"BEL_I"})) = grid.K
                     /\ Cardinality(WiresAt(x, y, {"BEL_F"})) = 1
                     /\ Cardinality(WiresAt(x, y, {"BEL_Q"})) = 1
            /\ \A i \in iobs :
                 LET x == ctx[i].loc[1]
                     y == ctx[i].loc[2]
                     z == ctx[i].loc[3]
                 IN  /\ x = 0 /\ y \in 0 .. (grid.IO_ROWS - 1)
                     /\ PinsOf(ctx[i].name)
                          = { <<"addBelInput", <<"I">>, IoToken(x, y, z, <<"I">>)>>,
                              <<"addBelInput", <<"E", "N">>, IoToken(x, y, z, <<"E", "N">>)>>,
                              <<"addBelOutput", <<"O">>, IoToken(x, y, z, <<"O">>)>> }
                     /\ {p[3] : p \in PinsOf(ctx[i].name)} \subseteq WireNames
                     /\ Cardinality(WiresAt(x, y, {"BEL_I", "BEL_Q"}))
                          = 3 * grid.bits_per_io_cell
            /\ {<<ctx[i].loc[1], ctx[i].loc[2]>> : i \in slices}
                 \cap {<<ctx[i].loc[1], ctx[i].loc[2]>> : i \in iobs} = {}

C24_Witness ==
    /\ FabricDone
    /\ grid = Grid(2, 2, 2, 0, 1, 2)
    /\ Cardinality({i \in BelCalls : ctx[i].type = "GENERIC_SLICE"}) = 2
    /\ Cardinality({i \in BelCalls : ctx[i].type = "GENERIC_IOB"}) = 2
    /\ Cardinality(WiresAt(1, 1, {"BEL_CLK", "BEL_I", "BEL_F", "BEL_Q"})) = 5
    /\ Cardinality(WiresAt(0, 0, {"BEL_I", "BEL_Q"})) = 6

\* the failures by kind: the messages of translate about a coordinate out of
\* its range, about the direction of an I/O pin, about a name no pattern
\* matches, and the messages of process_netnames about a net
DomainRangeKinds ==
    {"io_y_range", "io_z_range", "io_x", "lut_x_range", "lut_y_range", "lut_suffix"}

DirectionKinds == {"io_input_direction", "io_output_direction"}

UnrecognizedKinds == {"unrecognized"}

StructuralKinds == {"missing_attributes", "missing_routing"}

GRID_SIZE == 11

TEMPLATE_CELL_NAME == <<"C", "E", "L", "L", " ", "X", "0", " ", "Y", "0">>

\* f"CELL X{x} Y{y}"
cell_name(x, y) ==
    <<"C", "E", "L", "L", " ", "X">> \o FormatInt(x) \o <<" ", "Y">> \o FormatInt(y)

CellInfo(pnr_x, pnr_y, init, ff_used) ==
    [pnr_x |-> pnr_x, pnr_y |-> pnr_y, init |-> init, ff_used |-> ff_used]

kicad_x(c) == c.pnr_x - 1

kicad_y(c) == c.pnr_y

\* raise LutLoadError(f"No sheet found ... expected sheet named {sheet_name!r}")
LutLoadError(why, sheet) == [kind |-> "error", why |-> why, sheet |-> sheet]

Property(key, value) == [key |-> key, value |-> value]

MuxKey(bit_idx, suffix) ==
    <<"M", "U", "X", "_">> \o FormatInt(bit_idx) \o <<"_">> \o suffix

\* init_to_mux_properties that takes the leftmost character for bit 0
init_to_mux_properties_LeftmostIsBitZero(init, ff_used) ==
    LET Pair(bit_idx) ==
            LET bit_value == init[bit_idx + 1]
                mux_0_val == CASE bit_value = "1" -> <<"0">> [] bit_value = "0" -> <<"1">>
                mux_1_val == CASE bit_value = "1" -> <<"1">> [] bit_value = "0" -> <<"0">>
            IN  << Property(MuxKey(bit_idx, <<"0">>), mux_0_val),
                   Property(MuxKey(bit_idx, <<"1">>), mux_1_val) >>
    IN  Flatten([n \in 1 .. 8 |-> Pair(n - 1)])
        \o << Property(<<"U", "S", "E", "_", "D", "F", "F">>,
                       IF ff_used THEN <<"1">> ELSE <<"0">>),
              Property(<<"U", "S", "E", "_", "M", "U", "X">>, <<"1">>) >>

\* init[7 - bit_idx] of the source is the character at position 8 - bit_idx
\* here; a character other than "0" and "1" fails the assert
init_to_mux_properties(init, ff_used) ==
    LET Pair(bit_idx) ==
            LET bit_value == init[8 - bit_idx]
                mux_0_val == CASE bit_value = "1" -> <<"0">> [] bit_value = "0" -> <<"1">>
                mux_1_val == CASE bit_value = "1" -> <<"1">> [] bit_value = "0" -> <<"0">>
            IN  << Property(MuxKey(bit_idx, <<"0">>), mux_0_val),
                   Property(MuxKey(bit_idx, <<"1">>), mux_1_val) >>
    IN  Flatten([n \in 1 .. 8 |-> Pair(n - 1)])
        \o << Property(<<"U", "S", "E", "_", "D", "F", "F">>,
                       IF ff_used THEN <<"1">> ELSE <<"0">>),
              Property(<<"U", "S", "E", "_", "M", "U", "X">>, <<"1">>) >>

\* the INIT strings parse_pnrtop lets through: 8 binary digits
Inits == [1 .. 8 -> {"0", "1"}]

\* a GENERIC_SLICE cell of a design placed on the fabric of hdl/simple.py:
\* its Bel X<x>Y<y>_SLICE is one of the logic cells of the repository's setting
PlacedCells ==
    LET coords == lut_cell_coords(Grid(X, Y, K, GLOBAL_WIRE_COUNT, IO_ROWS,
                                       bits_per_io_cell))
    IN  { CellInfo(coords[q[1]][1], coords[q[1]][2], q[2], q[3]) :
            q \in (1 .. Len(coords)) \X Inits \X BOOLEAN }

\* the schematic holds the template sheet only
InitLuts ==
    /\ pc = "place_cells"
    /\ sheet_lookup = {TEMPLATE_CELL_NAME}
    /\ cell = NoCell
    /\ used_sheets = {}
    /\ sheet_props = <<>>
    /\ lut_error = NoLutError
    /\ TranslateIdle
    /\ ParseIdle
    /\ MainIdle
    /\ FabricIdle

\* place_cells_in_schematic.main: a sheet for every cell of the grid that
\* has none yet
PlaceCells ==
    /\ pc = "place_cells"
    /\ TEMPLATE_CELL_NAME \in sheet_lookup
    /\ sheet_lookup' = sheet_lookup
           \cup { cell_name(q[1], q[2]) :
                    q \in (0 .. (GRID_SIZE - 1)) \X (0 .. (GRID_SIZE - 1)) }
    /\ pc' = "load_luts"
    /\ UNCHANGED <<cell, used_sheets, sheet_props, lut_error, fabric_vars, main_vars>>

\* load_luts_into_kicad.main, for a design of one logic cell
LoadLuts ==
    /\ pc = "load_luts"
    /\ \E c \in PlacedCells :
         LET sheet_name == cell_name(kicad_x(c), kicad_y(c)) IN
         /\ cell' = c
         /\ IF sheet_name \notin sheet_lookup
            THEN /\ lut_error' = LutLoadError("no_sheet", sheet_name)
                 /\ pc' = "luts_failed"
                 /\ UNCHANGED <<used_sheets, sheet_props>>
            ELSE /\ used_sheets' = used_sheets \cup {sheet_name}
                 /\ sheet_props' = init_to_mux_properties(c.init, c.ff_used)
                 /\ pc' = "luts_done"
                 /\ UNCHANGED lut_error
    /\ UNCHANGED <<sheet_lookup, fabric_vars, main_vars>>

NextLuts ==
    \/ PlaceCells
    \/ LoadLuts

SpecLuts == InitLuts /\ [][NextLuts]_vars

(***************************************************************************)
(* Properties of the LUT loader                                            *)
(***************************************************************************)
LutsDone == pc = "luts_done"

\* the number an INIT string writes in binary, and its bit n
InitValue(init) ==
    LET D(i) == IF init[i] = "1" THEN 1 ELSE 0
    IN  128 * D(1) + 64 * D(2) + 32 * D(3) + 16 * D(4)
            + 8 * D(5) + 4 * D(6) + 2 * D(7) + D(8)

BitOf(init, n) == (InitValue(init) \div (2 ^ n)) % 2

\* the properties of bit n, by the rule of the module's docstring
ExpectedMux(init, n) ==
    IF BitOf(init, n) = 1
    THEN << Property(MuxKey(n, <<"0">>), <<"0">>), Property(MuxKey(n, <<"1">>), <<"1">>) >>
    ELSE << Property(MuxKey(n, <<"0">>), <<"1">>), Property(MuxKey(n, <<"1">>), <<"0">>) >>

C28_EverySheetFound ==
    pc \in {"luts_done", "luts_failed"} =>
        /\ kicad_x(cell) \in 0 .. 10
        /\ kicad_y(cell) \in 0 .. 10
        /\ cell_name(kicad_x(cell), kicad_y(cell)) \in sheet_lookup
        /\ lut_error = NoLutError

\* what holds: the columns all have their sheets, and the cells of the rows
\* 0 to 10 are loaded; a cell of row 11 ends the loader with the error
C28_RowElevenHasNoSheet ==
    pc \in {"luts_done", "luts_failed"} =>
        /\ kicad_x(cell) \in 0 .. (GRID_SIZE - 1)
        /\ pc = "luts_failed" <=> cell.pnr_y = 11
        /\ pc = "luts_failed" =>
             lut_error = LutLoadError("no_sheet", cell_name(cell.pnr_x - 1, 11))
        /\ pc = "luts_done" => used_sheets = {cell_name(cell.pnr_x - 1, cell.pnr_y)}

C28_Witness ==
    /\ pc = "luts_failed"
    /\ cell.pnr_x = 1
    /\ cell.pnr_y = 11
    /\ lut_error = LutLoadError("no_sheet",
                                <<"C", "E", "L", "L", " ", "X", "0", " ", "Y", "1", "1">>)
    /\ sheet_props = <<>>

(***************************************************************************)
(* The input-label domain against the translator                           *)
(***************************************************************************)
\* a name the logic-pin pattern reads as an input pin
IsInputPin(tok) ==
    LET lut == ReMatch(RE_LUT_PIN, Strip(tok))
    IN  lut.ok /\ lut.groups[3][1] = "I"

\* the labels translate returns for the valid logic input tokens
\* X<x>Y<y>_I<k>, x in 1..GRID_X-1, y in 0..GRID_Y-1, k in 0..LUT_K-1
InputTokenLabels ==
    { Translate(LutToken(q[1], q[2], InputSuffix(q[3]))).label :
        q \in (1 .. (GRID_X - 1)) \X (0 .. (GRID_Y - 1)) \X (0 .. (LUT_K - 1)) }

\* the labels translate returns for any input pin it accepts, whatever the
\* coordinates and the way they are written
AcceptedInputLabels ==
    { Translate(t).label :
        t \in { u \in WithPadding(LutTokens \cup ZeroLedTokens) :
                  IsInputPin(u) /\ Translate(u).kind = "label" } }

\* list_all_input_nets has (GRID_X-1)*GRID_Y*LUT_K entries, all different,
\* and they are the labels of the valid logic input tokens and of nothing else
InputDomainIsTranslateImage ==
    /\ Len(ListAllInputNets) = (GRID_X - 1) * GRID_Y * LUT_K
    /\ Cardinality(AllInputNetsSet) = (GRID_X - 1) * GRID_Y * LUT_K
    /\ AllInputNetsSet = InputTokenLabels
    /\ AcceptedInputLabels = AllInputNetsSet

\* the labels of the input pins routed in the nets that get a record
RoutedInputLabels ==
    UNION { TraceLabels[netnames[k].routing] \cap AcceptedInputLabels :
              k \in {m \in 1 .. Len(netnames) : Kept(netnames[m])} }

\* C27: list_all_input_nets is the same list of (GRID_X-1)*GRID_Y*LUT_K
\* different labels for every netlist, and it is the set of the labels
\* translate returns for the valid logic input tokens; so no label translate
\* returns for an input pin is outside the domain, and every logic input
\* routed in a net takes its label out of the unused set: the unused set is
\* the domain without the routed input labels, one element less for each.
C27_InputDomainMatchesTranslate ==
    /\ InputDomainIsTranslateImage
    /\ GroundAppended =>
         /\ RoutedInputLabels \subseteq AllInputNetsSet
         /\ unused_inputs = AllInputNetsSet \ RoutedInputLabels
         /\ Cardinality(unused_inputs)
              = (GRID_X - 1) * GRID_Y * LUT_K - Cardinality(RoutedInputLabels)

C27_Witness ==
    /\ pc = "done"
    /\ Len(netnames) = 2
    /\ netnames[1].routing
         = Join(<<LutToken(GRID_X - 1, GRID_Y - 1, InputSuffix(LUT_K - 1))>>)
    /\ netnames[2].routing
         = Join(<<LutToken(2, 2, InputSuffix(1)), <<>>, <<"1">>, LutToken(1, 1, <<"Q">>)>>)
    /\ RoutedInputLabels
         = { LutLabel(GRID_X - 2, GRID_Y - 1, InputSuffix(LUT_K)),
             LutLabel(1, 2, InputSuffix(2)) }
    /\ Cardinality(unused_inputs) = 394

====
